---------------------------- MODULE Spec2Model ----------------------------
(***************************************************************************)
(* A model of eureka-js-client (src/src/EurekaClient.js and its cluster    *)
(* resolvers): the registry cache with its full rebuild and delta          *)
(* application, the retrying request pipeline, and the client lifecycle    *)
(* (start, stop, heartbeat and registry-fetch timers).                     *)
(*                                                                         *)
(* Three specifications share the variables:                               *)
(*   SpecCache  transformRegistry / handleDelta on the cache               *)
(*   SpecReq    one eurekaRequest through resolver, middleware and HTTP     *)
(*   SpecLife   start(), stop(), timers, renew(), register(), deregister() *)
(***************************************************************************)
EXTENDS Integers, Sequences, FiniteSets, TLC

VARIABLES
    \* ---- registry cache (this.cache, config.eureka.filterUpInstances)
    cache,          \* [app |-> key -> list, vip |-> key -> list]
    filterUp,       \* config.eureka.filterUpInstances
    prev,           \* history: the cache before the last operation
    lastOp,         \* history: the last operation and its input
    nOps,           \* history: number of operations applied
    \* ---- request pipeline (one eurekaRequest call and its retries)
    ring,           \* ConfigClusterResolver.serviceUrls
    maxRetries,     \* config.eureka.maxRetries
    middleware,     \* what config.requestMiddleware hands to its continuation
    req,            \* the request in progress
    \* ---- lifecycle
    life,           \* the client, its timers and its requests in flight
    \* ---- DNS cluster resolver
    dns             \* DnsClusterResolver: configuration, serverList, lookups in flight

vars == <<cache, filterUp, prev, lastOp, nOps, ring, maxRetries, middleware, req, life, dns>>
cacheVars == <<cache, filterUp, prev, lastOp, nOps>>
reqVars == <<ring, maxRetries, middleware, req>>
lifeVars == <<life>>
dnsVars == <<dns>>

\* no DnsClusterResolver constructed (config.eureka.useDns is false)
DnsIdle == [useDns |-> FALSE]

\* no eurekaRequest made yet
ReqIdle ==
    [pc |-> "idle", n |-> 0, retryAttempt |-> 0, target |-> <<>>, log |-> <<>>,
     scheduled |-> 0, delay |-> 0, callbacks |-> 0, cbError |-> "none", cbStatus |-> 0]
\* no request of any kind in flight.  A request is counted by its method and
\* by the callback eurekaRequest will hand its outcome to.
NoneInFlight ==
    [regStart |-> 0,    \* POST of register(done), done being start()'s step
     regRenew |-> 0,    \* POST of the register() that renew() calls, no callback
     renew |-> 0,       \* PUT of renew()
     dereg |-> 0,       \* DELETE of deregister(callback), called by stop()
     fetchStart |-> 0,  \* GET of fetchRegistry(done), done being start()'s step
     fetchTimer |-> 0,  \* GET of the fetchRegistry the registry-fetch timer calls
     deltaStart |-> 0,  \* GET delta of fetchRegistry(done) of start()'s step
     deltaTimer |-> 0]  \* GET delta of the registry-fetch timer's fetchRegistry

\* config.eureka.maxRetries is at most this
MaxRetriesBound == 2
\* the registration POSTs by the retryAttempt of their eurekaRequest: none
NoRegistration ==
    [k \in {"regStart", "regRenew"} |-> [a \in 0..MaxRetriesBound |-> 0]]

\* the renewal PUTs by the retryAttempt of their eurekaRequest: none
NoRenewal == [a \in 0..MaxRetriesBound |-> 0]

\* nothing observed yet
NoStep ==
    [op |-> "none", status |-> 0, attempt |-> 0, failed |-> FALSE, emitted |-> {},
     callback |-> "none", before |-> NoneInFlight, afterStop |-> FALSE]

\* the client after construction, with the default configuration
LifeIdle ==
    [registerWithEureka |-> TRUE,   \* config.eureka.registerWithEureka
     fetchRegistry |-> TRUE,        \* config.eureka.fetchRegistry
     shouldUseDelta |-> FALSE,      \* config.shouldUseDelta
     waitForRegistry |-> FALSE,     \* config.eureka.waitForRegistry
     vipAddress |-> <<"a">>,        \* config.instance.vipAddress
     waitTimers |-> 0,              \* pending setTimeout(waitForRegistryUpdate, 2000)
     instanceStatus |-> "unset",    \* config.instance.status
     hasFullRegistry |-> FALSE,     \* this.hasFullRegistry
     heartbeat |-> 0,               \* this.heartbeat, 0 for undefined
     registryFetch |-> 0,           \* this.registryFetch, 0 for undefined
     hbTimers |-> {},               \* interval timers that call renew()
     rfTimers |-> {},               \* interval timers that call fetchRegistry()
     handles |-> 0,                 \* timer handles given out by setInterval
     inflight |-> NoneInFlight,
     regSent |-> NoRegistration,    \* POSTs of register() in their HTTP call
     regWaiting |-> NoRegistration, \* POSTs of register() waiting for their retry timer
     renewSent |-> NoRenewal,       \* PUTs of renew() in their HTTP call
     renewWaiting |-> NoRenewal,    \* PUTs of renew() waiting for their retry timer
     calls |-> 0,                   \* history: calls of start(), of stop(), ticks
     stopped |-> FALSE,             \* history: stop() was called, start() not since
     last |-> NoStep]               \* history: the last step

(***************************************************************************)
(* JavaScript values used by the cache code.                               *)
(***************************************************************************)
\* A string is the sequence of its characters.
Chars(s) == [type |-> "string", chars |-> s]
Undefined == [type |-> "undefined"]
Comma == ","

\* Array.isArray(v) ? v : [v]
arrayOrObj(mysteryValue) ==
    IF mysteryValue.type = "array" THEN mysteryValue.items ELSE <<mysteryValue.obj>>

JsArray(items) == [type |-> "array", items |-> items]
JsObject(obj) == [type |-> "object", obj |-> obj]

\* String.prototype.toUpperCase on the application names in use
toUpperCase(s) ==
    CASE s = "svc" -> "SVC"
      [] s = "web" -> "WEB"
      [] OTHER -> s

\* String.prototype.split(','): the pieces between the commas (never empty:
\* a string without comma is its own single piece).
RECURSIVE SplitFrom(_, _, _)
SplitFrom(s, i, piece) ==
    IF i > Len(s) THEN <<piece>>
    ELSE IF s[i] = Comma THEN <<piece>> \o SplitFrom(s, i + 1, <<>>)
    ELSE SplitFrom(s, i + 1, Append(piece, s[i]))

split(s) == SplitFrom(s, 1, <<>>)

\* typeof vipAddress !== 'string' ? [] : vipAddress.split(',')
splitVipAddress(vipAddress) ==
    IF vipAddress.type # "string" THEN <<>> ELSE split(vipAddress.chars)

(***************************************************************************)
(* An index (cache.app or cache.vip) is a function from its keys to lists. *)
(***************************************************************************)
EmptyIndex == [k \in {} |-> <<>>]
HasKey(index, key) == key \in DOMAIN index
Put(index, key, list) ==
    [k \in DOMAIN index \cup {key} |-> IF k = key THEN list ELSE index[k]]
EmptyCache == [app |-> EmptyIndex, vip |-> EmptyIndex]

\* b => a.hostName === b.hostName && a.port.$ === b.port.$
findInstance(a, b) == a.hostName = b.hostName /\ a.port = b.port

\* lodash findIndex(index[key], findInstance(a)): 0-based, -1 when there is no
\* match or no list at all
findIndex(index, key, a) ==
    IF ~HasKey(index, key) THEN -1
    ELSE LET hits == {i \in 1..Len(index[key]) : findInstance(a, index[key][i])}
         IN  IF hits = {} THEN -1
             ELSE (CHOOSE i \in hits : \A j \in hits : i <= j) - 1

\* Array.prototype.splice(start, deleteCount, ...items) for 0 <= start
splice(list, start, deleteCount, items) ==
    LET from == IF start > Len(list) THEN Len(list) ELSE start
        del  == IF deleteCount > Len(list) - from THEN Len(list) - from ELSE deleteCount
    IN  SubSeq(list, 1, from) \o items \o SubSeq(list, from + del + 1, Len(list))

\* The start argument the app-index splices pass is not the found index but
\* cache.vip[instance.vipAddress]: undefined or an array of instance objects.
\* ToIntegerOrInfinity of either is 0: undefined -> NaN -> 0, [] -> "" -> 0,
\* [o, ...] -> "[object Object],..." -> NaN -> 0.
SpliceStartOfVipList(c, instance) ==
    IF instance.vipAddress.type # "string" THEN 0
    ELSE IF ~HasKey(c.vip, instance.vipAddress.chars) THEN 0
    ELSE IF Len(c.vip[instance.vipAddress.chars]) = 0 THEN 0
    ELSE 0

\* validateInstance letting every status pass
validateInstancePassingAll(instance, filter) == TRUE

\* !filterUpInstances || instance.status === 'UP'
validateInstance(instance, filter) == ~filter \/ instance.status = "UP"

\* the vipAddresses.forEach of addInstance
RECURSIVE AddToVips(_, _, _)
AddToVips(vip, tokens, instance) ==
    IF tokens = <<>> THEN vip
    ELSE LET t == Head(tokens)
             alreadyContains == findIndex(vip, t, instance) > -1
             next == IF alreadyContains THEN vip
                     ELSE Put(vip, t, Append(IF HasKey(vip, t) THEN vip[t] ELSE <<>>, instance))
         IN  AddToVips(next, Tail(tokens), instance)

\* addInstance with cache.app[appName].unshift(instance) for the push
addInstanceUnshifting(c, instance, filter) ==
    IF ~validateInstance(instance, filter) THEN c
    ELSE LET vipAddresses == splitVipAddress(instance.vipAddress)
             appName == toUpperCase(instance.app)
             vip1 == AddToVips(c.vip, vipAddresses, instance)
             app1 == IF HasKey(c.app, appName) THEN c.app ELSE Put(c.app, appName, <<>>)
             alreadyContains == findIndex(app1, appName, instance) > -1
         IN  [app |-> IF alreadyContains THEN app1
                      ELSE Put(app1, appName, <<instance>> \o app1[appName]),
              vip |-> vip1]

addInstance(c, instance, filter) ==
    IF ~validateInstance(instance, filter) THEN c
    ELSE LET vipAddresses == splitVipAddress(instance.vipAddress)
             appName == toUpperCase(instance.app)
             vip1 == AddToVips(c.vip, vipAddresses, instance)
             app1 == IF HasKey(c.app, appName) THEN c.app ELSE Put(c.app, appName, <<>>)
             alreadyContains == findIndex(app1, appName, instance) > -1
         IN  [app |-> IF alreadyContains THEN app1
                      ELSE Put(app1, appName, Append(app1[appName], instance)),
              vip |-> vip1]

\* the vipAddresses.forEach of modifyInstance: replace where found, else a
\* whole addInstance (all vip lists and the app list)
RECURSIVE ModifyInVips(_, _, _, _)
ModifyInVips(c, tokens, instance, filter) ==
    IF tokens = <<>> THEN c
    ELSE LET t == Head(tokens)
             index == findIndex(c.vip, t, instance)
             next == IF index > -1
                     THEN [c EXCEPT !.vip = Put(c.vip, t, splice(c.vip[t], index, 1, <<instance>>))]
                     ELSE addInstance(c, instance, filter)
         IN  ModifyInVips(next, Tail(tokens), instance, filter)

\* modifyInstance first taking the instance out of the vip lists its
\* vipAddress does not name
modifyInstanceLeavingNoStale(c, instance, filter) ==
    LET vipAddresses == splitVipAddress(instance.vipAddress)
        named == {vipAddresses[k] : k \in 1..Len(vipAddresses)}
        c0 == [c EXCEPT !.vip = [t \in DOMAIN c.vip |->
                  IF t \in named THEN c.vip[t]
                  ELSE SelectSeq(c.vip[t], LAMBDA x : ~findInstance(instance, x))]]
        appName == toUpperCase(instance.app)
        c1 == ModifyInVips(c0, vipAddresses, instance, filter)
        index == findIndex(c1.app, appName, instance)
    IN  IF index > -1
        THEN [c1 EXCEPT !.app = Put(c1.app, appName,
                 splice(c1.app[appName], SpliceStartOfVipList(c1, instance), 1, <<instance>>))]
        ELSE addInstance(c1, instance, filter)

modifyInstance(c, instance, filter) ==
    LET vipAddresses == splitVipAddress(instance.vipAddress)
        appName == toUpperCase(instance.app)
        c1 == ModifyInVips(c, vipAddresses, instance, filter)
        index == findIndex(c1.app, appName, instance)
    IN  IF index > -1
        THEN [c1 EXCEPT !.app = Put(c1.app, appName,
                 splice(c1.app[appName], SpliceStartOfVipList(c1, instance), 1, <<instance>>))]
        ELSE addInstance(c1, instance, filter)

\* the vipAddresses.forEach of deleteInstance
RECURSIVE DeleteFromVips(_, _, _)
DeleteFromVips(vip, tokens, instance) ==
    IF tokens = <<>> THEN vip
    ELSE LET t == Head(tokens)
             index == findIndex(vip, t, instance)
             next == IF index > -1 THEN Put(vip, t, splice(vip[t], index, 1, <<>>)) ELSE vip
         IN  DeleteFromVips(next, Tail(tokens), instance)

\* deleteInstance with the app-index splice run without the index > -1 test
deleteInstanceUnguarded(c, instance) ==
    LET vipAddresses == splitVipAddress(instance.vipAddress)
        appName == toUpperCase(instance.app)
        c1 == [c EXCEPT !.vip = DeleteFromVips(c.vip, vipAddresses, instance)]
    IN  IF HasKey(c1.app, appName)
        THEN [c1 EXCEPT !.app = Put(c1.app, appName,
                 splice(c1.app[appName], SpliceStartOfVipList(c1, instance), 1, <<>>))]
        ELSE c1

deleteInstance(c, instance) ==
    LET vipAddresses == splitVipAddress(instance.vipAddress)
        appName == toUpperCase(instance.app)
        c1 == [c EXCEPT !.vip = DeleteFromVips(c.vip, vipAddresses, instance)]
        index == findIndex(c1.app, appName, instance)
    IN  IF index > -1
        THEN [c1 EXCEPT !.app = Put(c1.app, appName,
                 splice(c1.app[appName], SpliceStartOfVipList(c1, instance), 1, <<>>))]
        ELSE c1

\* the switch of handleDelta for one instance
applyDelta(c, instance, filter) ==
    CASE instance.actionType = "ADDED" -> addInstance(c, instance, filter)
      [] instance.actionType = "MODIFIED" -> modifyInstance(c, instance, filter)
      [] instance.actionType = "DELETED" -> deleteInstance(c, instance)
      [] OTHER -> c

RECURSIVE ApplyAll(_, _, _)
ApplyAll(c, instances, filter) ==
    IF instances = <<>> THEN c
    ELSE ApplyAll(applyDelta(c, Head(instances), filter), Tail(instances), filter)

\* normalizeDelta: every app's instance field becomes an array
normalizeDelta(appDelta) ==
    LET apps == arrayOrObj(appDelta)
    IN  [i \in 1..Len(apps) |-> [apps[i] EXCEPT !.instance = JsArray(arrayOrObj(@))]]

RECURSIVE HandleApps(_, _, _)
HandleApps(c, apps, filter) ==
    IF apps = <<>> THEN c
    ELSE HandleApps(ApplyAll(c, Head(apps).instance.items, filter), Tail(apps), filter)

handleDelta(c, appDelta, filter) == HandleApps(c, normalizeDelta(appDelta), filter)


(***************************************************************************)
(* transformRegistry / transformApp.  A result is the cache to install and *)
(* whether the code threw (fetchFullRegistry catches it; the old cache     *)
(* stays).                                                                 *)
(***************************************************************************)
Null == [type |-> "null"]

RECURSIVE AddAll(_, _, _)
AddAll(c, instances, filter) ==
    IF instances = <<>> THEN c
    ELSE AddAll(IF validateInstance(Head(instances), filter)
                THEN addInstance(c, Head(instances), filter) ELSE c,
                Tail(instances), filter)

\* if (app.instance.length) filter + forEach addInstance
\* else if (validateInstance(app.instance)) addInstance(cache, app.instance)
\* An empty array has no status and no app: with filtering it is skipped,
\* without filtering addInstance throws on instance.app.toUpperCase().
\* An application without instance field throws on app.instance.length.
transformApp(app, c, filter) ==
    IF app.instance.type = "undefined" THEN [cache |-> c, threw |-> TRUE]
    ELSE IF app.instance.type = "array" /\ Len(app.instance.items) > 0
    THEN [cache |-> AddAll(c, app.instance.items, filter), threw |-> FALSE]
    ELSE IF app.instance.type = "array"
    THEN [cache |-> c, threw |-> ~filter]
    ELSE IF validateInstance(app.instance.obj, filter)
    THEN [cache |-> addInstance(c, app.instance.obj, filter), threw |-> FALSE]
    ELSE [cache |-> c, threw |-> FALSE]

RECURSIVE TransformApps(_, _, _)
TransformApps(apps, c, filter) ==
    IF apps = <<>> THEN [cache |-> c, threw |-> FALSE]
    ELSE LET r == transformApp(Head(apps), c, filter)
         IN  IF r.threw THEN r ELSE TransformApps(Tail(apps), r.cache, filter)

\* transformRegistry installing what it had built when transformApp threw
transformRegistryInstallingPartial(old, registry, filter) ==
    IF registry.type = "undefined" THEN [cache |-> old, threw |-> FALSE]
    ELSE IF registry.application.type = "null" THEN [cache |-> old, threw |-> FALSE]
    ELSE IF registry.application.type = "array"
    THEN TransformApps(registry.application.items, EmptyCache, filter)
    ELSE transformApp(registry.application.obj, EmptyCache, filter)

\* The cache after transformRegistry(registry) ran on a client holding `old`.
transformRegistry(old, registry, filter) ==
    IF registry.type = "undefined" THEN [cache |-> old, threw |-> FALSE]
    ELSE IF registry.application.type = "null" THEN [cache |-> old, threw |-> FALSE]
    ELSE LET r == IF registry.application.type = "array"
                  THEN TransformApps(registry.application.items, EmptyCache, filter)
                  ELSE transformApp(registry.application.obj, EmptyCache, filter)
         IN  IF r.threw THEN [cache |-> old, threw |-> TRUE]
             ELSE [cache |-> r.cache, threw |-> FALSE]

(***************************************************************************)
(* The inputs of the cache specification.                                  *)
(***************************************************************************)
MaxOps == 2

Statuses == {"UP", "DOWN"}
ActionTypes == {"ADDED", "MODIFIED", "DELETED"}
VipA == <<"a">>
VipAB == <<"a", Comma, "b">>
Identities == {<<"h1", 80>>, <<"h2", 80>>, <<"h1", 81>>}
\* an instance belongs to one application
AppOf(id) == IF id = <<"h1", 81>> THEN "web" ELSE "svc"

Instance(id, v, s) ==
    [hostName |-> id[1], port |-> id[2], app |-> AppOf(id),
     vipAddress |-> Chars(v), status |-> s]

\* the vipAddress values an instance is sent with
VipsOf(id) == IF id = <<"h1", 80>> THEN {VipA, VipAB} ELSE {VipA}

Instances ==
    UNION {{Instance(id, v, s) : v \in VipsOf(id), s \in Statuses} : id \in Identities}

Delta(i, t) ==
    [hostName |-> i.hostName, port |-> i.port, app |-> i.app,
     vipAddress |-> i.vipAddress, status |-> i.status, actionType |-> t]

Deltas == {Delta(i, t) : i \in Instances, t \in ActionTypes}

\* the delta payload of one instance, in either wire form
DeltaWire(d, bare) ==
    IF bare THEN JsObject([name |-> d.app, instance |-> JsObject(d)])
    ELSE JsArray(<<[name |-> d.app, instance |-> JsArray(<<d>>)]>>)

\* A full registry lists each chosen instance once, grouped by application.
IdOrder == <<(<<"h1", 80>>), (<<"h2", 80>>), (<<"h1", 81>>)>>
AppOrder == <<"svc", "web">>

Choices ==
    {ch \in [Identities -> {"absent"} \cup ({VipA, VipAB} \X Statuses)] :
        \A id \in Identities : ch[id] = "absent" \/ ch[id][1] \in VipsOf(id)}

RECURSIVE ChosenOf(_, _, _)
ChosenOf(ch, a, k) ==
    IF k > Len(IdOrder) THEN <<>>
    ELSE LET id == IdOrder[k]
         IN  (IF ch[id] # "absent" /\ AppOf(id) = a
              THEN <<Instance(id, ch[id][1], ch[id][2])>> ELSE <<>>)
             \o ChosenOf(ch, a, k + 1)

AppEntry(a, list, bare) ==
    [name |-> a,
     instance |-> IF bare /\ Len(list) = 1 THEN JsObject(list[1]) ELSE JsArray(list)]

RECURSIVE AppEntries(_, _, _)
AppEntries(ch, bare, k) ==
    IF k > Len(AppOrder) THEN <<>>
    ELSE LET list == ChosenOf(ch, AppOrder[k], 1)
         IN  (IF list = <<>> THEN <<>> ELSE <<AppEntry(AppOrder[k], list, bare)>>)
             \o AppEntries(ch, bare, k + 1)

Registry(ch, bare) ==
    LET apps == AppEntries(ch, bare, 1)
    IN  [type |-> "object",
         application |-> IF bare /\ Len(apps) = 1 THEN JsObject(apps[1]) ELSE JsArray(apps)]

Registries ==
    {Undefined, [type |-> "object", application |-> Null],
     [type |-> "object",
      application |-> JsArray(<<[name |-> "svc", instance |-> JsArray(<<>>)]>>)]}
    \cup {Registry(ch, bare) : ch \in Choices, bare \in BOOLEAN}

(***************************************************************************)
(* SpecCache: the cache under full rebuilds and delta batches.             *)
(***************************************************************************)
NoOp == [op |-> "none"]

InitCache ==
    /\ dns = DnsIdle
    /\ cache = EmptyCache
    /\ filterUp \in BOOLEAN
    /\ prev = EmptyCache
    /\ lastOp = NoOp
    /\ nOps = 0
    /\ ring = <<>> /\ maxRetries = 0 /\ middleware = "object" /\ req = ReqIdle
    /\ life = LifeIdle

\* fetchFullRegistry's body was parsed to `registry`: transformRegistry
TransformRegistry(registry) ==
    /\ nOps < MaxOps
    /\ LET r == transformRegistry(cache, registry, filterUp)
       IN  /\ cache' = r.cache
           /\ lastOp' = [op |-> "transformRegistry", registry |-> registry, threw |-> r.threw]
    /\ prev' = cache
    /\ nOps' = nOps + 1
    /\ UNCHANGED <<filterUp, reqVars, lifeVars, dnsVars>>

\* fetchDelta's body was parsed: handleDelta(this.cache, applications)
HandleDelta(d, bare) ==
    /\ nOps < MaxOps
    /\ cache' = handleDelta(cache, DeltaWire(d, bare), filterUp)
    /\ lastOp' = [op |-> "handleDelta", instance |-> d]
    /\ prev' = cache
    /\ nOps' = nOps + 1
    /\ UNCHANGED <<filterUp, reqVars, lifeVars, dnsVars>>

NextCache ==
    \/ \E registry \in Registries : TransformRegistry(registry)
    \/ \E d \in Deltas, bare \in BOOLEAN : HandleDelta(d, bare)

SpecCache == InitCache /\ [][NextCache]_vars


(***************************************************************************)
(* ConfigClusterResolver: the ring of base URLs.                           *)
(***************************************************************************)
\* availabilityZones[ec2Region] when all three are set, else ['default']
getAvailabilityZones(cfg) ==
    IF cfg.ec2Region # "" /\ cfg.ec2Region \in DOMAIN cfg.availabilityZones
    THEN cfg.availabilityZones[cfg.ec2Region]
    ELSE <<"default">>

\* `${protocol}://${host}:${port}${servicePath}`
HostUrl(cfg) ==
    <<IF cfg.ssl THEN "https" ELSE "http", "://", cfg.host, ":", cfg.port, cfg.servicePath>>

\* the zones.forEach of buildServiceUrls: the zone of the instance is
\* unshifted and, having no else, pushed as well
RECURSIVE ZoneUrls(_, _, _)
ZoneUrls(cfg, zones, urls) ==
    IF zones = <<>> THEN urls
    ELSE LET zone == Head(zones)
             own == cfg.preferSameZone /\ cfg.instanceZone # "" /\ cfg.instanceZone = zone
             next == IF zone \in DOMAIN cfg.serviceUrls
                     THEN (IF own THEN cfg.serviceUrls[zone] ELSE <<>>)
                          \o urls \o cfg.serviceUrls[zone]
                     ELSE urls
         IN  ZoneUrls(cfg, Tail(zones), next)

\* buildServiceUrls putting the zone of the instance first whatever
\* preferSameZone says
buildServiceUrlsAlwaysPreferring(cfg) ==
    LET urls == IF cfg.hasServiceUrls
                THEN ZoneUrls([cfg EXCEPT !.preferSameZone = TRUE], getAvailabilityZones(cfg), <<>>)
                ELSE <<>>
    IN  IF Len(urls) = 0 THEN <<HostUrl(cfg)>> ELSE urls

buildServiceUrls(cfg) ==
    LET urls == IF cfg.hasServiceUrls
                THEN ZoneUrls(cfg, getAvailabilityZones(cfg), <<>>)
                ELSE <<>>
    IN  IF Len(urls) = 0 THEN <<HostUrl(cfg)>> ELSE urls

\* resolveEurekaUrl(callback, retryAttempt): the ring after the call; the URL
\* handed to the callback is its head
\* resolveEurekaUrl rotating on every call, retry or not
resolveEurekaUrlAlwaysRotating(serviceUrls, retryAttempt) ==
    IF Len(serviceUrls) > 1
    THEN Append(Tail(serviceUrls), Head(serviceUrls))
    ELSE serviceUrls

\* resolveEurekaUrl shifting the head off without pushing it back
resolveEurekaUrlDroppingHead(serviceUrls, retryAttempt) ==
    IF Len(serviceUrls) > 1 /\ retryAttempt > 0
    THEN Tail(serviceUrls)
    ELSE serviceUrls

resolveEurekaUrl(serviceUrls, retryAttempt) ==
    IF Len(serviceUrls) > 1 /\ retryAttempt > 0
    THEN Append(Tail(serviceUrls), Head(serviceUrls))
    ELSE serviceUrls

(***************************************************************************)
(* eurekaRequest: resolve, middleware, HTTP call, final handler.           *)
(***************************************************************************)
MaxRequests == 2
RequestRetryDelay == 500

UrlA == <<"http://serverA">>
UrlB == <<"http://serverB">>
NoZones == [z \in {} |-> <<>>]

BaseConfig ==
    [host |-> "127.0.0.1", port |-> "9999", servicePath |-> "/eureka/v2/apps/",
     ssl |-> FALSE, ec2Region |-> "", availabilityZones |-> NoZones,
     hasServiceUrls |-> FALSE, serviceUrls |-> NoZones,
     preferSameZone |-> TRUE, instanceZone |-> ""]

\* eureka.serviceUrls = {default: [A, B]}
ListConfig ==
    [BaseConfig EXCEPT !.hasServiceUrls = TRUE,
                       !.serviceUrls = [z \in {"default"} |-> <<UrlA, UrlB>>]]

\* one server in each of two zones of the region
ZonedConfig(prefer, zone) ==
    [BaseConfig EXCEPT !.hasServiceUrls = TRUE,
                       !.ec2Region = "r1",
                       !.availabilityZones = [r \in {"r1"} |-> <<"z1", "z2">>],
                       !.serviceUrls = [z \in {"z1", "z2"} |-> IF z = "z1" THEN <<UrlA>> ELSE <<UrlB>>],
                       !.preferSameZone = prefer,
                       !.instanceZone = zone]

ResolverConfigs ==
    {BaseConfig, ListConfig}
    \cup {ZonedConfig(prefer, zone) : prefer \in BOOLEAN, zone \in {"", "z1", "z2"}}

\* what requestMiddleware hands to its continuation, by its typeof; null has
\* typeof 'object'
MiddlewareResults == {"object", "string", "undefined", "null"}
TypeofIsObject(m) == m \in {"object", "null"}

StatusCodes == {200, 404, 500, 503}
TransportError == [error |-> TRUE, status |-> 0]
Response(s) == [error |-> FALSE, status |-> s]
Outcomes == {TransportError} \cup {Response(s) : s \in StatusCodes}

RECURSIVE LeadingDigit(_)
LeadingDigit(n) == IF n < 10 THEN n ELSE LeadingDigit(n \div 10)

\* responseInvalid taking the 4xx statuses for retryable as well
responseInvalidFrom4xx(outcome) ==
    ~outcome.error /\ outcome.status # 0 /\ LeadingDigit(outcome.status) >= 4

\* response && response.statusCode && String(response.statusCode)[0] === '5'
responseInvalid(outcome) ==
    ~outcome.error /\ outcome.status # 0 /\ LeadingDigit(outcome.status) = 5

\* the retry test with <= for <
shouldRetryOnceMore(failed, retryAttempt, max) == failed /\ retryAttempt <= max

\* (error || responseInvalid) && retryAttempt < maxRetries
shouldRetry(failed, retryAttempt, max) == failed /\ retryAttempt < max


\* The final handler of the waterfall.  `sent` tells whether the HTTP stage
\* ran, which is when requestOpts reaches the handler; the retry branch reads
\* requestOpts.prefixUrl before it schedules and throws without it.
FinalHandler(r, error, outcome, sent) ==
    LET failed == error # "none" \/ (sent /\ responseInvalid(outcome))
        Logged(then) ==
            IF sent THEN Append(r.log, [target |-> r.target, outcome |-> outcome, then |-> then])
            ELSE r.log
    IN  IF shouldRetry(failed, r.retryAttempt, maxRetries)
        THEN IF ~sent
             THEN [r EXCEPT !.pc = "threw"]
             ELSE [r EXCEPT !.pc = "waiting",
                            !.log = Logged("retry"),
                            !.scheduled = @ + 1,
                            !.delay = RequestRetryDelay * (r.retryAttempt + 1)]
        ELSE [r EXCEPT !.pc = "done",
                       !.log = Logged("callback"),
                       !.callbacks = @ + 1,
                       !.cbError = error,
                       !.cbStatus = IF sent THEN outcome.status ELSE 0]

\* The first two stages of one attempt: resolve the URL, run the middleware,
\* and either send the HTTP request or end in the final handler.
Attempt(r, retryAttempt) ==
    LET r1 == [r EXCEPT !.retryAttempt = retryAttempt, !.target = Head(ring')]
    IN  /\ ring' = resolveEurekaUrl(ring, retryAttempt)
        /\ req' = IF ~TypeofIsObject(middleware)
                  THEN FinalHandler(r1, "middleware", TransportError, FALSE)
                  ELSE IF middleware = "null"
                  THEN [r1 EXCEPT !.pc = "threw"]
                  ELSE [r1 EXCEPT !.pc = "inflight"]

InitReq ==
    /\ dns = DnsIdle
    /\ \E cfg \in ResolverConfigs : ring = buildServiceUrls(cfg)
    /\ maxRetries \in 0..MaxRetriesBound
    /\ middleware \in MiddlewareResults
    /\ req = ReqIdle
    /\ cache = EmptyCache /\ filterUp = TRUE /\ prev = EmptyCache
    /\ lastOp = NoOp /\ nOps = 0
    /\ life = LifeIdle

\* eurekaRequest(uri, opts, callback): a new request, retryAttempt 0
EurekaRequest ==
    /\ req.pc \in {"idle", "done", "threw"}
    /\ req.n < MaxRequests
    /\ Attempt([ReqIdle EXCEPT !.n = req.n + 1], 0)
    /\ UNCHANGED <<maxRetries, middleware, cacheVars, lifeVars, dnsVars>>

\* the HTTP call of the attempt in flight ends: the final handler runs
HttpDone(outcome) ==
    /\ req.pc = "inflight"
    /\ req' = FinalHandler(req, IF outcome.error THEN "transport" ELSE "none", outcome, TRUE)
    /\ UNCHANGED <<ring, maxRetries, middleware, cacheVars, lifeVars, dnsVars>>

\* the retry timer fires: eurekaRequest(uri, opts, callback, retryAttempt + 1)
RetryTimer ==
    /\ req.pc = "waiting"
    /\ Attempt(req, req.retryAttempt + 1)
    /\ UNCHANGED <<maxRetries, middleware, cacheVars, lifeVars, dnsVars>>

NextReq ==
    \/ EurekaRequest
    \/ \E outcome \in Outcomes : HttpDone(outcome)
    \/ RetryTimer

SpecReq == InitReq /\ [][NextReq]_vars

(***************************************************************************)
(* Claims about the cache, stated over the last operation: `prev` is the   *)
(* cache it ran on, `cache` the cache it left.                             *)
(***************************************************************************)
ListOf(index, key) == IF HasKey(index, key) THEN index[key] ELSE <<>>
Matches(list, a) == {i \in 1..Len(list) : findInstance(a, list[i])}
Tokens(instance) == {splitVipAddress(instance.vipAddress)[k] :
                        k \in 1..Len(splitVipAddress(instance.vipAddress))}
AppKey(instance) == toUpperCase(instance.app)
LastWas(t) == lastOp.op = "handleDelta" /\ lastOp.instance.actionType = t
\* the lists of d's index slots: its application's and those of its vip tokens
SlotsBefore(d) == {ListOf(prev.app, AppKey(d))} \cup {ListOf(prev.vip, t) : t \in Tokens(d)}
Elements(list) == {list[i] : i \in 1..Len(list)}
\* an entry without the delta's actionType tag
Untagged(i) == [hostName |-> i.hostName, port |-> i.port, app |-> i.app,
                vipAddress |-> i.vipAddress, status |-> i.status]
UntaggedIndex(index) ==
    [k \in DOMAIN index |-> [n \in 1..Len(index[k]) |-> Untagged(index[k][n])]]
UntaggedCache(c) == [app |-> UntaggedIndex(c.app), vip |-> UntaggedIndex(c.vip)]

\* a list after the delete the claim describes: no match left, the others kept
DeletedFrom(before, after, d) ==
    /\ Matches(after, d) = {}
    /\ \A i \in 1..Len(before) : ~findInstance(d, before[i]) => before[i] \in Elements(after)

\* C1: after a DELETED delta for d, no entry matching d on (hostName, port)
\* remains in the app-index list of d's app or in a vip-index list named by
\* d's vipAddress, and every non-matching entry of those lists is still there.
C1_DeleteRemovesExactlyTheMatch ==
    LastWas("DELETED") =>
        LET d == lastOp.instance
        IN  /\ DeletedFrom(ListOf(prev.app, AppKey(d)), ListOf(cache.app, AppKey(d)), d)
            /\ \A t \in Tokens(d) : DeletedFrom(ListOf(prev.vip, t), ListOf(cache.vip, t), d)

\* a list after the replacement the claim describes: the matching entry is m,
\* every other entry is in its place, the length is the same
ReplacedIn(before, after, m) ==
    /\ Len(after) = Len(before)
    /\ \A i \in 1..Len(before) :
          after[i] = IF findInstance(m, before[i]) THEN m ELSE before[i]

\* C2: when an entry matching m exists, a MODIFIED delta for m replaces exactly
\* that entry by m in the app-index list of m's app and in every vip-index list
\* where it is found; the other entries stay in place, the lengths are kept.
C2_ModifyReplacesTheMatchInPlace ==
    LET m == lastOp.instance
    IN  (LastWas("MODIFIED") /\ Matches(ListOf(prev.app, AppKey(m)), m) # {}) =>
            /\ ReplacedIn(prev.app[AppKey(m)], ListOf(cache.app, AppKey(m)), m)
            /\ \A t \in Tokens(m) :
                  Matches(ListOf(prev.vip, t), m) # {} =>
                      ReplacedIn(prev.vip[t], ListOf(cache.vip, t), m)

NoMatchAnywhere(c, m) ==
    /\ \A k \in DOMAIN c.app : Matches(c.app[k], m) = {}
    /\ \A k \in DOMAIN c.vip : Matches(c.vip[k], m) = {}

\* C3: when no entry matches m in any index slot, a MODIFIED delta for m
\* leaves the cache an ADDED delta for m would leave.
C3_ModifyWithoutMatchIsAdd ==
    LET m == lastOp.instance
    IN  (LastWas("MODIFIED") /\ NoMatchAnywhere(prev, m)) =>
            UntaggedCache(cache) =
                UntaggedCache(handleDelta(prev, DeltaWire(Delta(m, "ADDED"), FALSE), filterUp))

\* the instances a registry lists
AppsOfRegistry(registry) ==
    IF registry.application.type = "null" THEN <<>>
    ELSE arrayOrObj(registry.application)
InstancesOfRegistry(registry) ==
    UNION {Elements(arrayOrObj(AppsOfRegistry(registry)[k].instance)) :
              k \in 1..Len(AppsOfRegistry(registry))}
CachedInstances(c) ==
    UNION ({Elements(c.app[k]) : k \in DOMAIN c.app} \cup {Elements(c.vip[k]) : k \in DOMAIN c.vip})
LastWasRebuild ==
    lastOp.op = "transformRegistry" /\ lastOp.registry.type = "object" /\ ~lastOp.threw

\* C4: after transformRegistry(snapshot) the cache holds the instances of the
\* snapshot (those that pass the UP filter) and none that were only in the
\* prior cache; a snapshot without applications leaves both indexes empty.
C4_RebuildReplacesTheCache ==
    LastWasRebuild =>
        /\ CachedInstances(cache) =
              {i \in InstancesOfRegistry(lastOp.registry) : validateInstance(i, filterUp)}
        /\ AppsOfRegistry(lastOp.registry) = <<>> => cache = EmptyCache


(***************************************************************************)
(* Claims about eurekaRequest.  req.log lists the HTTP attempts of the     *)
(* request: the base URL, how the attempt ended, and what the final        *)
(* handler did then.                                                       *)
(***************************************************************************)
Failing(outcome) == outcome.error \/ outcome.status \in 500..599
Attempts(r) == Len(r.log) + IF r.pc = "inflight" THEN 1 ELSE 0
Retried(r) == {i \in 1..Len(r.log) : r.log[i].then = "retry"}

\* C5: when the middleware hands its continuation something that is not an
\* object, the request fails with the middleware error, sends no HTTP request,
\* schedules no retry, and the error reaches the callback, whatever maxRetries.
C5_BadMiddlewareFailsOnceInCallback ==
    (~TypeofIsObject(middleware) /\ req.pc # "idle") =>
        /\ req.pc = "done"
        /\ req.callbacks = 1
        /\ req.cbError = "middleware"
        /\ Attempts(req) = 0
        /\ req.scheduled = 0

\* C6: a request makes at most maxRetries + 1 HTTP attempts and calls back at
\* most once; when every attempt failed it has made exactly maxRetries + 1
\* attempts by the time it calls back, and it calls back then.
C6_AtMostMaxRetriesPlusOneAttempts ==
    /\ Attempts(req) <= maxRetries + 1
    /\ req.callbacks <= 1
    /\ req.pc \in {"inflight", "waiting"} => req.callbacks = 0
    /\ req.pc = "waiting" => req.retryAttempt < maxRetries
    /\ (Len(req.log) = maxRetries + 1 /\ \A i \in 1..Len(req.log) : Failing(req.log[i].outcome))
          => (req.pc = "done" /\ req.callbacks = 1)
    /\ (req.pc = "done" /\ req.log # <<>> /\ \A i \in 1..Len(req.log) : Failing(req.log[i].outcome))
          => Len(req.log) = maxRetries + 1

C6_AllAttemptsFailed ==
    /\ maxRetries >= 2
    /\ req.pc = "done"
    /\ req.callbacks = 1
    /\ Len(req.log) = maxRetries + 1
    /\ \A i \in 1..Len(req.log) : Failing(req.log[i].outcome)
    /\ \E i \in 1..Len(req.log) : req.log[i].outcome.error
    /\ \E i \in 1..Len(req.log) : req.log[i].outcome.status = 503

TwoServers == Cardinality({ring[i] : i \in 1..Len(ring)}) = 2

\* C7: with two configured servers and retries enabled, a request answered 500
\* and then 200 completes without error after exactly two attempts, and the
\* second attempt goes to another base URL than the first.
C7_RetryGoesToTheOtherServer ==
    (/\ TwoServers
     /\ maxRetries >= 1
     /\ Len(req.log) >= 2
     /\ req.log[1].outcome = Response(500)
     /\ req.log[2].outcome = Response(200)) =>
        /\ req.pc = "done"
        /\ Len(req.log) = 2
        /\ req.callbacks = 1
        /\ req.cbError = "none"
        /\ req.log[2].target # req.log[1].target

\* C8: a retry is scheduled only after an attempt that ended in a transport
\* error or a 5xx response, with attempts left; a response with any other
\* status is handed to the callback and not retried.
C8_RetryOnlyAfterErrorOr5xx ==
    /\ \A i \in 1..Len(req.log) :
          LET e == req.log[i]
          IN  /\ e.then = "retry" => (Failing(e.outcome) /\ i - 1 < maxRetries)
              /\ ~Failing(e.outcome) =>
                    /\ e.then = "callback"
                    /\ i = Len(req.log)
                    /\ req.pc = "done"
                    /\ req.cbError = "none"
                    /\ req.cbStatus = e.outcome.status
    /\ req.scheduled = Cardinality(Retried(req))

C8_RetriedThenHandedOver ==
    /\ Len(req.log) = 2
    /\ req.log[1].outcome = Response(503)
    /\ req.log[1].then = "retry"
    /\ req.log[2].outcome = Response(404)
    /\ req.log[2].then = "callback"
    /\ req.cbStatus = 404


(***************************************************************************)
(* SpecLife: start(), stop(), the two interval timers and the requests     *)
(* they make.  A request is eurekaRequest as a whole: it is in flight      *)
(* until eurekaRequest calls back with an error or a response.  The client *)
(* runs outside AWS (no metadata client).                                  *)
(***************************************************************************)
\* start() calls, stop() calls and timer ticks, together
MaxCalls == 4

\* what eurekaRequest hands to its callback: an error, or a response
LifeOutcomes ==
    {[error |-> TRUE, status |-> 0]}
    \cup {[error |-> FALSE, status |-> st] : st \in {200, 204, 404, 500}}

\* the body of a registry response: no applications, one UP instance, a
\* snapshot transformApp throws on, or text that JSON.parse rejects
OneInstance == [id \in Identities |->
                  IF id = <<"h1", 80>> THEN <<VipA, "UP">> ELSE "absent"]
\* the snapshot that lists the client itself, UP, under its own vipAddress
OwnListing ==
    Registry([id \in Identities |->
                IF id = <<"h1", 80>> THEN <<life.vipAddress, "UP">> ELSE "absent"], FALSE)
\* a snapshot whose second application has no instance field
PartlyBroken ==
    [type |-> "object",
     application |-> JsArray(<<AppEntry("svc", <<Instance(<<"h2", 80>>, VipA, "UP")>>, FALSE),
                               [name |-> "web", instance |-> Undefined]>>)]
LifeBodies ==
    {[type |-> "object", application |-> Null], Registry(OneInstance, FALSE),
     OwnListing, PartlyBroken, [type |-> "malformed"]}

\* the body of a delta response: one more instance of the application, or
\* text that JSON.parse rejects
LifeDeltaBodies ==
    {DeltaWire(Delta(Instance(<<"h2", 80>>, VipA, "UP"), "ADDED"), FALSE),
     [type |-> "malformed"]}

\* a response has a body to parse when its status is 200
BodiesOf(outcome) ==
    IF ~outcome.error /\ outcome.status = 200 THEN LifeBodies
    ELSE {[type |-> "malformed"]}
DeltaBodiesOf(outcome) ==
    IF ~outcome.error /\ outcome.status = 200 THEN LifeDeltaBodies
    ELSE {[type |-> "malformed"]}

\* a step begins: remember what it is and what was in flight
Begin(op, status) ==
    [life EXCEPT !.last = [op |-> op, status |-> status, attempt |-> 0, failed |-> FALSE,
                           emitted |-> {},
                           callback |-> "none", before |-> life.inflight,
                           afterStop |-> life.stopped]]

\* the request's callback found that the request failed
Failed(l, err) == [l EXCEPT !.last.failed = err]
emit(l, signal) == [l EXCEPT !.last.emitted = @ \cup {signal}]
\* the callback the user gave to start() or stop() is called
UserCallback(l, err) == [l EXCEPT !.last.callback = IF err THEN "error" ELSE "ok"]
Send(l, k) == [l EXCEPT !.inflight[k] = @ + 1]
Answered(l, k) == [l EXCEPT !.inflight[k] = @ - 1]

\* the mutation of register that starts the heartbeat timer with the POST
registerStartingHeartbeats(l, k) ==
    LET h == l.handles + 1
    IN  [l EXCEPT !.instanceStatus = "UP", !.inflight[k] = @ + 1,
                  !.regSent[k][0] = @ + 1,
                  !.handles = h, !.heartbeat = h, !.hbTimers = @ \cup {h}]

\* register(callback): status UP, POST
register(l, k) ==
    Send([l EXCEPT !.instanceStatus = "UP", !.regSent[k][0] = @ + 1], k)

\* this.heartbeat = setInterval(() => this.renew(), heartbeatInterval)
startHeartbeats(l) ==
    LET h == l.handles + 1
    IN  [l EXCEPT !.handles = h, !.heartbeat = h, !.hbTimers = @ \cup {h}]

\* this.registryFetch = setInterval(() => this.fetchRegistry(...), ...)
startRegistryFetches(l) ==
    LET h == l.handles + 1
    IN  [l EXCEPT !.handles = h, !.registryFetch = h, !.rfTimers = @ \cup {h}]

\* fetchRegistry(callback): shouldUseDelta is false, so fetchFullRegistry
DeltaKind(k) == IF k = "fetchStart" THEN "deltaStart" ELSE "deltaTimer"

\* the mutation of fetchRegistry that asks for a delta whenever
\* shouldUseDelta is set
fetchRegistryDeltaFirst(l, k) ==
    IF l.shouldUseDelta THEN Send(l, DeltaKind(k)) ELSE Send(l, k)

\* fetchRegistry(callback): fetchDelta once a full registry was fetched and
\* shouldUseDelta is set, fetchFullRegistry otherwise
fetchRegistry(l, k) ==
    IF l.shouldUseDelta /\ l.hasFullRegistry THEN Send(l, DeltaKind(k)) ELSE Send(l, k)

\* this.cache.vip[vipAddress] || []
getInstancesByVipAddress(c, vipAddress) ==
    IF HasKey(c.vip, vipAddress) THEN c.vip[vipAddress] ELSE <<>>

\* the mutation of start()'s final callback that emits started in any case
StartFinalAlwaysStarted(l, err) == UserCallback(emit(l, "started"), err)

\* the final callback of start()'s series
StartFinal(l, err) ==
    IF err THEN UserCallback(l, TRUE) ELSE UserCallback(emit(l, "started"), FALSE)

\* the mutation of the fetch callback that completes start() whatever the
\* cache holds
FetchCallbackNotWaiting(l, k, err, c) ==
    IF k \in {"fetchTimer", "deltaTimer"} THEN l
    ELSE StartFinal(l, l.waitForRegistry = FALSE /\ err)

\* the callback fetchRegistry was given, run on the cache c the fetch left:
\* the timer's only logs; start()'s is done, or with waitForRegistry the
\* check of the own vipAddress that polls again after 2000 ms
FetchCallback(l, k, err, c) ==
    IF k \in {"fetchTimer", "deltaTimer"} THEN l
    ELSE IF ~l.waitForRegistry THEN StartFinal(l, err)
    ELSE IF Len(getInstancesByVipAddress(c, l.vipAddress)) = 0
    THEN [l EXCEPT !.waitTimers = @ + 1]
    ELSE StartFinal(l, FALSE)

\* the third step of start()'s series
StartThirdStep(l) ==
    LET l1 == IF l.registerWithEureka THEN startHeartbeats(l) ELSE l
    IN  IF l1.fetchRegistry
        THEN fetchRegistry(startRegistryFetches(l1), "fetchStart")
        ELSE StartFinal(l1, FALSE)


\* the mutation of renew's callback that treats a 404 like any other failure
renewCallbackIgnoring404(outcome) ==
    IF ~outcome.error /\ outcome.status = 200 THEN "heartbeat" ELSE "log"

\* the mutation of renew's callback that re-registers after every failure
renewCallbackReRegistering(outcome) ==
    IF ~outcome.error /\ outcome.status = 200 THEN "heartbeat" ELSE "register"

\* renew's callback: 200 emits heartbeat, 404 re-registers, the rest is logged
renewCallback(outcome) ==
    IF ~outcome.error /\ outcome.status = 200 THEN "heartbeat"
    ELSE IF ~outcome.error /\ outcome.status = 404 THEN "register"
    ELSE "log"

InitLife ==
    /\ dns = DnsIdle
    /\ \E r \in BOOLEAN, f \in BOOLEAN :
          life = [LifeIdle EXCEPT !.registerWithEureka = r, !.fetchRegistry = f]
    /\ cache = EmptyCache /\ filterUp = TRUE /\ prev = EmptyCache
    /\ lastOp = NoOp /\ nOps = 0
    /\ ring = <<>> /\ maxRetries = 0 /\ middleware = "object" /\ req = ReqIdle

\* start(callback): the series up to its first asynchronous step
Start ==
    /\ life.calls < MaxCalls
    /\ LET l0 == [Begin("start", 0) EXCEPT !.calls = @ + 1, !.stopped = FALSE]
       IN  life' = IF l0.registerWithEureka THEN register(l0, "regStart")
                   ELSE StartThirdStep(l0)
    /\ UNCHANGED <<cacheVars, reqVars, dnsVars>>

\* The POST of register() on its attempt a is answered; k tells who called
\* register().  eurekaRequest's final handler schedules a retry after a
\* transport error or a 5xx while attempts are left, and otherwise calls
\* register's callback.
RegisterDone(k, a, outcome) ==
    /\ life.regSent[k][a] > 0
    /\ LET failed == outcome.error \/ responseInvalid(outcome)
           ok == ~outcome.error /\ outcome.status = 204
           b == [Begin("registerDone", outcome.status) EXCEPT !.regSent[k][a] = @ - 1,
                                                              !.last.attempt = a]
           l0 == Failed(Answered(b, k), ~ok)
           l1 == IF ok THEN emit(l0, "registered") ELSE l0
       IN  life' = IF shouldRetry(failed, a, maxRetries)
                   THEN [b EXCEPT !.regWaiting[k][a] = @ + 1]
                   ELSE IF k = "regRenew" THEN l1
                   ELSE IF ok THEN StartThirdStep(l1)
                   ELSE StartFinal(l1, TRUE)
    /\ UNCHANGED <<cacheVars, reqVars, dnsVars>>

\* the retry timer of a registration POST fires: eurekaRequest again with
\* retryAttempt + 1, which rotates the resolver's list
RegisterRetryTimer(k, a) ==
    /\ life.regWaiting[k][a] > 0
    /\ a < MaxRetriesBound
    /\ ring' = resolveEurekaUrl(ring, a + 1)
    /\ life' = [Begin("registerRetry", 0) EXCEPT !.regWaiting[k][a] = @ - 1,
                                                 !.regSent[k][a + 1] = @ + 1]
    /\ UNCHANGED <<maxRetries, middleware, req, cacheVars, dnsVars>>

\* a tick of a heartbeat timer: renew()
HeartbeatTick ==
    /\ life.hbTimers # {}
    /\ life.calls < MaxCalls
    /\ life' = Send([Begin("heartbeatTick", 0) EXCEPT !.calls = @ + 1,
                                                      !.renewSent[0] = @ + 1], "renew")
    /\ UNCHANGED <<cacheVars, reqVars, dnsVars>>

\* The PUT of renew() on its attempt a is answered.  eurekaRequest's final
\* handler schedules a retry after a transport error or a 5xx while attempts
\* are left, and otherwise calls renew's callback.
RenewDone(a, outcome) ==
    /\ life.renewSent[a] > 0
    /\ LET failed == outcome.error \/ responseInvalid(outcome)
           b == [Begin("renewDone", outcome.status) EXCEPT !.renewSent[a] = @ - 1,
                                                           !.last.attempt = a]
           l0 == Answered(b, "renew")
           todo == renewCallback(outcome)
       IN  life' = IF shouldRetry(failed, a, maxRetries)
                   THEN [b EXCEPT !.renewWaiting[a] = @ + 1,
                                  !.last.op = "renewRetryScheduled"]
                   ELSE IF todo = "heartbeat" THEN emit(l0, "heartbeat")
                   ELSE IF todo = "register" THEN register(l0, "regRenew")
                   ELSE l0
    /\ UNCHANGED <<cacheVars, reqVars, dnsVars>>

\* the retry timer of a renewal PUT fires: eurekaRequest again with
\* retryAttempt + 1, which rotates the resolver's list
RenewRetryTimer(a) ==
    /\ life.renewWaiting[a] > 0
    /\ a < MaxRetriesBound
    /\ ring' = resolveEurekaUrl(ring, a + 1)
    /\ life' = [Begin("renewRetry", 0) EXCEPT !.renewWaiting[a] = @ - 1,
                                              !.renewSent[a + 1] = @ + 1,
                                              !.last.attempt = a + 1]
    /\ UNCHANGED <<maxRetries, middleware, req, cacheVars, dnsVars>>

\* a tick of a registry-fetch timer: fetchRegistry(err => log)
FetchTick ==
    /\ life.rfTimers # {}
    /\ life.calls < MaxCalls
    /\ life' = fetchRegistry([Begin("fetchTick", 0) EXCEPT !.calls = @ + 1], "fetchTimer")
    /\ UNCHANGED <<cacheVars, reqVars, dnsVars>>

\* the callback of fetchFullRegistry's request; k tells who receives the result
FetchDone(k, outcome, body) ==
    /\ life.inflight[k] > 0
    /\ LET l0 == Answered(Begin("fetchDone", outcome.status), k)
           got == ~outcome.error /\ outcome.status = 200
           r == IF got /\ body.type # "malformed"
                THEN transformRegistry(cache, body, filterUp)
                ELSE [cache |-> cache, threw |-> TRUE]
           ok == got /\ ~r.threw
           l1 == IF ok THEN [emit(l0, "registryUpdated") EXCEPT !.hasFullRegistry = TRUE]
                 ELSE Failed(l0, TRUE)
       IN  /\ cache' = r.cache
           /\ life' = FetchCallback(l1, k, ~ok, r.cache)
    /\ UNCHANGED <<filterUp, prev, lastOp, nOps, reqVars, dnsVars>>

\* the callback of fetchDelta's request; k tells who receives the result
DeltaDone(k, outcome, body) ==
    /\ life.inflight[k] > 0
    /\ LET l0 == Answered(Begin("deltaDone", outcome.status), k)
           ok == ~outcome.error /\ outcome.status = 200 /\ body.type # "malformed"
           c == IF ok THEN handleDelta(cache, body, filterUp) ELSE cache
       IN  /\ cache' = c
           /\ life' = FetchCallback(Failed(l0, ~ok), k, ~ok, c)
    /\ UNCHANGED <<filterUp, prev, lastOp, nOps, reqVars, dnsVars>>

\* the 2000 ms timer of waitForRegistryUpdate fires: fetchRegistry again
WaitTimer ==
    /\ life.waitTimers > 0
    /\ life.calls < MaxCalls
    /\ life' = fetchRegistry([Begin("waitTimer", 0) EXCEPT !.calls = @ + 1,
                                                          !.waitTimers = @ - 1],
                             "fetchStart")
    /\ UNCHANGED <<cacheVars, reqVars, dnsVars>>

\* stop(callback)
Stop ==
    /\ life.calls < MaxCalls
    /\ LET l0 == [Begin("stop", 0) EXCEPT !.calls = @ + 1, !.stopped = TRUE,
                                         !.rfTimers = @ \ {life.registryFetch}]
       IN  life' = IF l0.registerWithEureka
                   THEN Send([l0 EXCEPT !.hbTimers = @ \ {life.heartbeat}], "dereg")
                   ELSE UserCallback(l0, FALSE)
    /\ UNCHANGED <<cacheVars, reqVars, dnsVars>>

\* the callback of deregister()'s request
DeregisterDone(outcome) ==
    /\ life.inflight.dereg > 0
    /\ LET l0 == Answered(Begin("deregisterDone", outcome.status), "dereg")
       IN  life' = IF ~outcome.error /\ outcome.status = 200
                   THEN UserCallback(emit(l0, "deregistered"), FALSE)
                   ELSE UserCallback(l0, TRUE)
    /\ UNCHANGED <<cacheVars, reqVars, dnsVars>>

NextLife ==
    \/ Start
    \/ \E k \in {"regStart", "regRenew"}, o \in LifeOutcomes : RegisterDone(k, 0, o)
    \/ HeartbeatTick
    \/ \E o \in LifeOutcomes : RenewDone(0, o)
    \/ FetchTick
    \/ \E k \in {"fetchStart", "fetchTimer"}, o \in LifeOutcomes :
          \E b \in BodiesOf(o) : FetchDone(k, o, b)
    \/ Stop
    \/ \E o \in LifeOutcomes : DeregisterDone(o)

SpecLife == InitLife /\ [][NextLife]_vars

(***************************************************************************)
(* SpecFetch: start() and the registry fetches of a client, with           *)
(* registerWithEureka, fetchRegistry, shouldUseDelta and waitForRegistry   *)
(* set or not.  The heartbeat interval does not elapse and stop() is not   *)
(* called.                                                                 *)
(***************************************************************************)
InitFetch ==
    /\ dns = DnsIdle
    /\ \E r \in BOOLEAN, f \in BOOLEAN, d \in BOOLEAN, w \in BOOLEAN, v \in {VipA, VipAB} :
          /\ ~w => v = VipA
          /\ life = [LifeIdle EXCEPT !.registerWithEureka = r, !.fetchRegistry = f,
                                     !.shouldUseDelta = d, !.waitForRegistry = w,
                                     !.vipAddress = v]
    /\ cache = EmptyCache /\ filterUp = TRUE /\ prev = EmptyCache
    /\ lastOp = NoOp /\ nOps = 0
    /\ ring = <<>> /\ maxRetries = 0 /\ middleware = "object" /\ req = ReqIdle

NextFetch ==
    \/ Start
    \/ \E o \in LifeOutcomes : RegisterDone("regStart", 0, o)
    \/ FetchTick
    \/ \E k \in {"fetchStart", "fetchTimer"}, o \in LifeOutcomes :
          \E b \in BodiesOf(o) : FetchDone(k, o, b)
    \/ \E k \in {"deltaStart", "deltaTimer"}, o \in LifeOutcomes :
          \E b \in DeltaBodiesOf(o) : DeltaDone(k, o, b)
    \/ WaitTimer

SpecFetch == InitFetch /\ [][NextFetch]_vars

(***************************************************************************)
(* Claims about the lifecycle.                                             *)
(***************************************************************************)
\* the requests in flight other than those of kind k are as before the step
OthersAsBefore(k) ==
    \A j \in DOMAIN NoneInFlight \ {k} : life.inflight[j] = life.last.before[j]

\* C9: after stop() no tick of the heartbeat timer or of the registry-fetch
\* timer starts a renewal or a fetch (until start() is called again); stop()
\* sends one deregistration exactly when registration is enabled, and with
\* registration disabled it sends nothing and calls its callback once.
C9_StopCancelsTimersThenDeregisters ==
    /\ life.last.op \in {"heartbeatTick", "fetchTick"} => ~life.last.afterStop
    /\ life.last.op = "stop" =>
          /\ OthersAsBefore("dereg")
          /\ IF life.registerWithEureka
             THEN /\ life.inflight.dereg = life.last.before.dereg + 1
                  /\ life.last.callback = "none"
             ELSE /\ life.inflight.dereg = life.last.before.dereg
                  /\ life.last.callback = "ok"

\* C10: a renewal answered 404 sends a registration in the same step and
\* emits no heartbeat; a renewal answered 200 emits heartbeat and sends no
\* registration.
C10_Renew404ReRegistersAtOnce ==
    life.last.op = "renewDone" =>
        /\ life.last.status = 404 =>
              /\ life.inflight.regRenew = life.last.before.regRenew + 1
              /\ life.inflight.regStart = life.last.before.regStart
              /\ "heartbeat" \notin life.last.emitted
        /\ life.last.status = 200 =>
              /\ life.inflight.regRenew = life.last.before.regRenew
              /\ life.inflight.regStart = life.last.before.regStart
              /\ "heartbeat" \in life.last.emitted

\* a renewal was answered 404 and the registration it caused is in flight
C10_ReRegistrationInFlight ==
    /\ life.last.op = "renewDone"
    /\ life.last.status = 404
    /\ life.inflight.regRenew > 0
    /\ life.instanceStatus = "UP"


(***************************************************************************)
(* SpecBeat: the heartbeat of a client with retries (maxRetries 0 and up): *)
(* the registration POSTs and the renewal PUTs go through eurekaRequest    *)
(* attempt by attempt, and the heartbeat timer ticks whatever is in        *)
(* flight.  The registry is not fetched (fetchRegistry: false) and the     *)
(* middleware is the default one.                                          *)
(***************************************************************************)
InitBeat ==
    /\ dns = DnsIdle
    /\ life = [LifeIdle EXCEPT !.fetchRegistry = FALSE]
    /\ \E cfg \in {BaseConfig, ListConfig} : ring = buildServiceUrls(cfg)
    /\ maxRetries \in 0..MaxRetriesBound
    /\ middleware = "object"
    /\ req = ReqIdle
    /\ cache = EmptyCache /\ filterUp = TRUE /\ prev = EmptyCache
    /\ lastOp = NoOp /\ nOps = 0

\* start() is called once on the client
BeatStart == life.calls = 0 /\ Start

\* the answers to a renewal PUT: those of LifeOutcomes and of Outcomes, and
\* a 400
BeatOutcomes == LifeOutcomes \cup Outcomes \cup {Response(400)}

NextBeat ==
    \/ BeatStart
    \/ \E k \in {"regStart", "regRenew"}, a \in 0..MaxRetriesBound, o \in LifeOutcomes :
          RegisterDone(k, a, o)
    \/ \E k \in {"regStart", "regRenew"}, a \in 0..MaxRetriesBound :
          RegisterRetryTimer(k, a)
    \/ HeartbeatTick
    \/ \E a \in 0..MaxRetriesBound, o \in BeatOutcomes : RenewDone(a, o)
    \/ \E a \in 0..MaxRetriesBound : RenewRetryTimer(a)

SpecBeat == InitBeat /\ [][NextBeat]_vars


(***************************************************************************)
(* Claims about the heartbeat.  A step is told by life'.last; the unprimed *)
(* life is the client before the step.                                     *)
(***************************************************************************)
\* the step is the answer to attempt a of a renewal
RenewalAnswered(a) ==
    /\ life'.last.op \in {"renewDone", "renewRetryScheduled"}
    /\ life'.last.attempt = a
\* the answer was a transport error (status 0) or a status other than 200, 404
RenewalFailedNot404 == life'.last.status \notin {200, 404}
\* the answer was a transport error (status 0) or a 5xx
RenewalFailing == life'.last.status = 0 \/ life'.last.status \in 500..599
\* the step sent no registration, emitted nothing, called no caller back and
\* left the heartbeat timer running
NothingElseDone ==
    /\ life'.regSent = life.regSent /\ life'.regWaiting = life.regWaiting
    /\ \A k \in DOMAIN life.inflight \ {"renew"} : life'.inflight[k] = life.inflight[k]
    /\ life'.last.emitted = {}
    /\ life'.last.callback = "none"
    /\ life'.hbTimers = life.hbTimers /\ life'.heartbeat = life.heartbeat
    /\ life.heartbeat \in life.hbTimers
\* the step sent a renewal PUT on attempt a
SentRenewal(a) == life'.renewSent[a] > life.renewSent[a]
\* the answer reached renew's callback: the renewal is over, no retry pending
ReachedRenewCallback ==
    /\ life'.last.op = "renewDone"
    /\ life'.renewWaiting = life.renewWaiting
    /\ life'.renewSent[life'.last.attempt] = life.renewSent[life'.last.attempt] - 1
    /\ \A a \in 0..MaxRetriesBound :
          a # life'.last.attempt => life'.renewSent[a] = life.renewSent[a]
    /\ life'.inflight.renew = life.inflight.renew - 1

FailedRenewalStepWaitsForTheTick ==
    /\ \A a \in 0..MaxRetriesBound :
          (RenewalAnswered(a) /\ RenewalFailedNot404) =>
              (ReachedRenewCallback /\ NothingElseDone)
    /\ \A a \in 0..MaxRetriesBound : SentRenewal(a) => life'.last.op = "heartbeatTick"

\* C11 as stated: a renewal attempt that failed other than by a 404 is over:
\* no retry, no re-registration, nothing propagated; a renewal PUT is sent
\* only by a heartbeat tick.
C11_FailedRenewalWaitsForTheTick == [][FailedRenewalStepWaitsForTheTick]_vars

FailedRenewalStepIsLoggedAfterTheRetries ==
    /\ \A a \in 0..MaxRetriesBound :
          RenewalAnswered(a) =>
              IF RenewalFailing /\ a < maxRetries
              THEN /\ life'.last.op = "renewRetryScheduled"
                   /\ life'.renewWaiting[a] = life.renewWaiting[a] + 1
                   /\ life'.renewSent[a] = life.renewSent[a] - 1
                   /\ life'.inflight.renew = life.inflight.renew
                   /\ NothingElseDone
              ELSE /\ ReachedRenewCallback
                   /\ RenewalFailedNot404 => NothingElseDone
    /\ SentRenewal(0) => life'.last.op = "heartbeatTick"
    /\ \A a \in 1..MaxRetriesBound :
          SentRenewal(a) =>
              /\ life'.last.op = "renewRetry"
              /\ life'.renewWaiting[a - 1] = life.renewWaiting[a - 1] - 1
    /\ life'.last.op = "heartbeatTick" =>
          /\ SentRenewal(0)
          /\ life'.renewWaiting = life.renewWaiting
          /\ life'.hbTimers = life.hbTimers

\* C11 amended: eurekaRequest sends the renewal again, on its retry timer,
\* only after a transport error or a 5xx response and only while the attempt
\* number is below maxRetries; any other answer reaches renew's callback at
\* once.  When a failure other than a 404 reaches the callback the renewal
\* is over and nothing else is done: no registration is sent, nothing is
\* emitted, no caller is called and the heartbeat timer keeps running.  A
\* first attempt is sent by a heartbeat tick only, and a tick sends one
\* whatever renewals are still in flight or waiting for their retry.
C11_FailedRenewalIsLoggedAfterTheRetries == [][FailedRenewalStepIsLoggedAfterTheRetries]_vars

\* a renewal failed with a 500 on its last attempt, the third, and was logged
\* while the renewal of a later tick waits for its retry
C11_RenewalFailedWhileAnotherAwaitsRetry ==
    /\ life.last.op = "renewDone"
    /\ life.last.status = 500
    /\ maxRetries = 2
    /\ life.last.attempt = 2
    /\ \E a \in 0..MaxRetriesBound : life.renewWaiting[a] > 0
    /\ life.inflight.regRenew = 0
    /\ life.heartbeat \in life.hbTimers


(***************************************************************************)
(* Claims about start().  A step is told by life'.last.op; the unprimed    *)
(* life is the client before the step.                                     *)
(***************************************************************************)
StartedHeartbeat == life'.hbTimers # life.hbTimers
StartedRegistryFetch == life'.rfTimers # life.rfTimers
Sent(k) == life'.inflight[k] = life.inflight[k] + 1
NotSent(k) == life'.inflight[k] <= life.inflight[k]

\* start()'s own fetch, full or delta
SentFetch ==
    life'.inflight.fetchStart + life'.inflight.deltaStart
        = life.inflight.fetchStart + life.inflight.deltaStart + 1
NotSentFetch ==
    life'.inflight.fetchStart + life'.inflight.deltaStart
        <= life.inflight.fetchStart + life.inflight.deltaStart

\* what C12 asks of one step
StartStepRegistersBeforeTimers ==
    /\ (life'.last.op = "start" /\ life.registerWithEureka) =>
          /\ Sent("regStart")
          /\ ~StartedHeartbeat /\ ~StartedRegistryFetch
          /\ NotSentFetch
    /\ (life'.last.op = "start" /\ ~life.registerWithEureka) =>
          /\ NotSent("regStart")
          /\ ~StartedHeartbeat
          /\ StartedRegistryFetch <=> life.fetchRegistry
          /\ IF life.fetchRegistry THEN SentFetch ELSE NotSentFetch
    /\ (life'.last.op = "registerDone" /\ life'.inflight.regStart < life.inflight.regStart) =>
          /\ StartedHeartbeat <=> life'.last.status = 204
          /\ StartedRegistryFetch <=> (life'.last.status = 204 /\ life.fetchRegistry)
          /\ IF life'.last.status = 204 /\ life.fetchRegistry
             THEN SentFetch ELSE NotSentFetch
    /\ life'.last.op \notin {"start", "registerDone"} =>
          (~StartedHeartbeat \/ life'.last.op = "stop")
    /\ ~life.registerWithEureka => life'.hbTimers = {} /\ NotSent("regStart")

\* C12: start() sends the registration and starts its timers only in the
\* step in which the registration is answered 204; with registration
\* disabled it sends no registration and starts no heartbeat timer, and it
\* starts the registry-fetch timer and sends the first fetch exactly when
\* fetching is enabled.
C12_StartRegistersBeforeTimers == [][StartStepRegistersBeforeTimers]_vars

\* the registration of the first start() was answered 204: both timers run
\* and the first fetch is in flight
C12_TimersRunAfterRegistration ==
    /\ life.last.op = "registerDone"
    /\ life.last.status = 204
    /\ life.calls = 1
    /\ life.heartbeat \in life.hbTimers
    /\ life.registryFetch \in life.rfTimers
    /\ life.inflight.fetchStart = 1
    /\ ~life.waitForRegistry


\* the last step was the callback of the registration start() sent
RegistrationAnswered ==
    life.last.op = "registerDone" /\ life.inflight.regStart < life.last.before.regStart
\* the last step was the callback of a fetch start() sent
StartFetchAnswered ==
    /\ life.last.op \in {"fetchDone", "deltaDone"}
    /\ \/ life.inflight.fetchStart < life.last.before.fetchStart
       \/ life.inflight.deltaStart < life.last.before.deltaStart
StartedNow == "started" \in life.last.emitted
ReportedError == life.last.callback = "error" /\ ~StartedNow
ReportedSuccess == life.last.callback = "ok" /\ StartedNow

\* C13 as stated: started is emitted exactly when start()'s last step
\* succeeded; a failed registration and a failed fetch of start() are passed
\* to start's callback, without started.
C13_StartedExactlyOnSuccess ==
    /\ StartedNow => (ReportedSuccess /\ ~life.last.failed)
    /\ RegistrationAnswered =>
          IF life.last.failed THEN ReportedError
          ELSE (~life.fetchRegistry => ReportedSuccess)
    /\ StartFetchAnswered =>
          IF life.last.failed THEN ReportedError ELSE ReportedSuccess

\* the last step was a call of start() on a client that neither registers
\* nor fetches the registry
StartWithNothingToDo ==
    life.last.op = "start" /\ ~life.registerWithEureka /\ ~life.fetchRegistry
\* the step neither called start's callback nor emitted started
StartStillRunning == life.last.callback = "none" /\ ~StartedNow

\* C13 amended: a failed registration is passed to start's callback without
\* started.  With fetchRegistry off, start() ends with started and without
\* error when the registration succeeded, or at once when the client does
\* not register either, whatever waitForRegistry is.  With fetchRegistry
\* on, a successful registration leaves start() running, and without
\* waitForRegistry the fetch of start() ends it: started and a callback
\* without error when it succeeded, the error and no started when it failed.
\* With fetchRegistry and waitForRegistry the outcome of the fetch is not
\* looked at: start() ends, with started and without error, when the cache
\* holds an instance under the own vipAddress, and otherwise sets the timer
\* for the next fetch and neither calls back nor emits started.
C13_StartedOnSuccessOrOnceListed ==
    /\ StartedNow => ReportedSuccess
    /\ StartWithNothingToDo => ReportedSuccess
    /\ (life.last.op = "start" /\ ~StartWithNothingToDo) => StartStillRunning
    /\ RegistrationAnswered =>
          IF life.last.failed THEN ReportedError
          ELSE IF life.fetchRegistry THEN StartStillRunning
          ELSE ReportedSuccess
    /\ (StartFetchAnswered /\ ~life.waitForRegistry) =>
          IF life.last.failed THEN ReportedError ELSE ReportedSuccess
    /\ (StartFetchAnswered /\ life.waitForRegistry) =>
          IF Len(getInstancesByVipAddress(cache, life.vipAddress)) > 0
          THEN ReportedSuccess
          ELSE /\ life.last.callback = "none" /\ ~StartedNow
               /\ life.waitTimers > 0

\* with waitForRegistry the fetch of start() failed: no error is reported,
\* the next fetch is scheduled
C13_FailedFetchNotReported ==
    /\ life.waitForRegistry
    /\ StartFetchAnswered
    /\ life.last.failed
    /\ life.last.callback = "none"
    /\ life.waitTimers = 1


(***************************************************************************)
(* Claims about the registry fetches.                                      *)
(***************************************************************************)
FullInFlight(l) == l.inflight.fetchStart + l.inflight.fetchTimer
DeltaInFlight(l) == l.inflight.deltaStart + l.inflight.deltaTimer
SentFull == FullInFlight(life') = FullInFlight(life) + 1
SentDelta == DeltaInFlight(life') = DeltaInFlight(life) + 1

\* what C14 asks of one step
FetchStepFollowsTheMode ==
    /\ SentFull => ~(life.shouldUseDelta /\ life.hasFullRegistry)
    /\ SentDelta => (life.shouldUseDelta /\ life.hasFullRegistry)
    /\ life'.last.op \in {"fetchTick", "waitTimer"} =>
          IF life.shouldUseDelta /\ life.hasFullRegistry
          THEN SentDelta /\ ~SentFull ELSE SentFull /\ ~SentDelta
    /\ life.hasFullRegistry => life'.hasFullRegistry
    /\ (life'.hasFullRegistry /\ ~life.hasFullRegistry) =>
          /\ life'.last.op = "fetchDone"
          /\ life'.last.status = 200
          /\ ~life'.last.failed
    /\ (life'.last.op = "fetchDone" /\ ~life'.last.failed) => life'.hasFullRegistry
    /\ life'.last.op = "deltaDone" => life'.hasFullRegistry = life.hasFullRegistry

\* C14: every fetch is a full fetch until a full fetch has succeeded; from
\* then on every fetch is a delta fetch when shouldUseDelta is set, also
\* after failed delta fetches, and a full fetch when it is not.
C14_FullUntilFirstSuccessThenDelta == [][FetchStepFollowsTheMode]_vars

\* after the first successful full fetch the timer's fetch is a delta fetch
C14_TimerFetchesDelta ==
    /\ life.shouldUseDelta /\ life.hasFullRegistry
    /\ life.last.op = "fetchTick"
    /\ life.inflight.deltaTimer = life.last.before.deltaTimer + 1
    /\ FullInFlight(life) = 0


\* C15: a fetch that succeeded, full or delta, emits registryUpdated in the
\* step that updates the registry, and a fetch that failed does not.
C15_EveryUpdateEmitsRegistryUpdated ==
    life.last.op \in {"fetchDone", "deltaDone"} =>
        ("registryUpdated" \in life.last.emitted <=> ~life.last.failed)


\* the cache lists the client itself (h1:80 of svc) with its own vipAddress
ListsTheClient(c) ==
    \E i \in 1..Len(ListOf(c.app, "SVC")) :
        /\ c.app["SVC"][i].hostName = "h1" /\ c.app["SVC"][i].port = 80
        /\ c.app["SVC"][i].vipAddress = Chars(life.vipAddress)

\* C16: with waitForRegistry, start() calls back and emits started only when
\* the cache holds an instance under the own vipAddress; a fetch of start()
\* that leaves none, failed or not, sets the timer for the next fetch; and a
\* fetch of start() after which the cache lists the client completes start().
C16_WaitsUntilTheClientIsListed ==
    life.waitForRegistry =>
        /\ (StartedNow \/ life.last.callback = "ok") =>
              Len(getInstancesByVipAddress(cache, life.vipAddress)) > 0
        /\ (StartFetchAnswered
              /\ Len(getInstancesByVipAddress(cache, life.vipAddress)) = 0) =>
              (life.waitTimers > 0 /\ life.last.callback = "none")
        /\ (StartFetchAnswered /\ ListsTheClient(cache)) => ReportedSuccess


(***************************************************************************)
(* More claims about the cache.                                            *)
(***************************************************************************)
AppNamesOf(registry) ==
    {toUpperCase(AppsOfRegistry(registry)[k].name) : k \in 1..Len(AppsOfRegistry(registry))}
VipTokensOf(registry, filter) ==
    UNION {Tokens(i) : i \in {j \in InstancesOfRegistry(registry) : validateInstance(j, filter)}}

\* C17: after transformRegistry of a snapshot with N app entries the app
\* index has exactly N keys, the upper-cased names of the entries, and the
\* keys of the vip index are the vipAddress tokens of the snapshot's
\* instances that pass the UP filter.
C17_KeysOfTheRebuiltCache ==
    LastWasRebuild =>
        /\ DOMAIN cache.app = AppNamesOf(lastOp.registry)
        /\ Cardinality(DOMAIN cache.app) = Len(AppsOfRegistry(lastOp.registry))
        /\ DOMAIN cache.vip = VipTokensOf(lastOp.registry, filterUp)


AddedDeltas == {d \in Deltas : d.actionType = "ADDED"}
Added(c, d) == handleDelta(c, DeltaWire(d, FALSE), filterUp)
Once(list, d) == Cardinality(Matches(list, d)) = 1
ListedOnce(c, d) ==
    /\ Once(ListOf(c.app, AppKey(d)), d)
    /\ \A t \in Tokens(d) : Once(ListOf(c.vip, t), d)

\* C18: for the cache the client holds and any ADDED delta, applying the
\* delta twice gives the same cache as applying it once, and in that cache
\* an instance that passes the status filter is matched by (hostName, port)
\* exactly once in the list of its application and once in the list of each
\* of its vipAddress tokens.
C18_AddedTwiceIsAddedOnce ==
    \A d \in AddedDeltas :
        /\ Added(Added(cache, d), d) = Added(cache, d)
        /\ validateInstance(d, filterUp) => ListedOnce(Added(cache, d), d)


(***************************************************************************)
(* SpecBatch: the cache under rebuilds and delta payloads that carry two   *)
(* ADDED instances.                                                        *)
(***************************************************************************)
\* the delta payload of two instances: one application entry when they
\* belong to the same application, else one entry each, in the given order
BatchWire(a, b) ==
    IF a.app = b.app
    THEN JsArray(<<[name |-> a.app, instance |-> JsArray(<<a, b>>)]>>)
    ELSE JsArray(<<[name |-> a.app, instance |-> JsArray(<<a>>)],
                   [name |-> b.app, instance |-> JsArray(<<b>>)]>>)

\* fetchDelta's body was parsed: handleDelta(this.cache, applications) with
\* two ADDED instances that differ in (hostName, port)
HandleBatch(a, b) ==
    /\ nOps < MaxOps
    /\ ~findInstance(a, b)
    /\ cache' = handleDelta(cache, BatchWire(a, b), filterUp)
    /\ lastOp' = [op |-> "handleBatch", first |-> a, second |-> b]
    /\ prev' = cache
    /\ nOps' = nOps + 1
    /\ UNCHANGED <<filterUp, reqVars, lifeVars, dnsVars>>

\* the snapshots of this specification: every choice of instances, each
\* application with its instances as an array
BatchRegistries == {Registry(ch, FALSE) : ch \in Choices}

NextBatch ==
    \/ \E registry \in BatchRegistries : TransformRegistry(registry)
    \/ \E a \in AddedDeltas, b \in AddedDeltas : HandleBatch(a, b)

SpecBatch == InitCache /\ [][NextBatch]_vars


LastWasBatch == lastOp.op = "handleBatch"
\* the cache the same two deltas give in the other order
Reversed == handleDelta(prev, BatchWire(lastOp.second, lastOp.first), filterUp)
\* a list is the same in both orders, or both instances were appended to it
\* and stand at its end in the order they were applied
SlotAgrees(l1, l2, old, a, b) ==
    \/ l1 = l2
    \/ l1 = old \o <<a, b>> /\ l2 = old \o <<b, a>>
IndexAgrees(i1, i2, old, a, b) ==
    /\ DOMAIN i1 = DOMAIN i2
    /\ \A k \in DOMAIN i1 : SlotAgrees(i1[k], i2[k], ListOf(old, k), a, b)

\* C19 as stated: two ADDED deltas for instances that differ in (hostName,
\* port) give the same cache in the order [A, B] and in the order [B, A].
C19_AddOrderGivesIdenticalCaches ==
    LastWasBatch => cache = Reversed

\* C19: two ADDED deltas for instances that differ in (hostName, port) give,
\* in the order [A, B] and in the order [B, A], caches with the same keys and
\* the same lists, except that a list to which both instances are appended
\* ends with them in the order in which they were applied.
C19_AddOrderOnlyOrdersTheAppended ==
    LastWasBatch =>
        /\ IndexAgrees(cache.app, Reversed.app, prev.app, lastOp.first, lastOp.second)
        /\ IndexAgrees(cache.vip, Reversed.vip, prev.vip, lastOp.first, lastOp.second)

\* both instances were appended to a list that held another instance
C19_BothAppendedToOneList ==
    /\ LastWasBatch
    /\ cache # Reversed
    /\ \E k \in DOMAIN cache.vip :
          /\ ListOf(prev.vip, k) # <<>>
          /\ cache.vip[k] = ListOf(prev.vip, k) \o <<lastOp.first, lastOp.second>>


\* the cache held an UP entry matching m in the list of m's application
CachedUp(c, m) ==
    \E i \in Matches(ListOf(c.app, AppKey(m)), m) : c.app[AppKey(m)][i].status = "UP"

\* C20: with UP filtering enabled, a MODIFIED delta with status DOWN that
\* matches a cached UP instance replaces the cached entry by the delta's
\* instance, status included, in the app-index list and in every vip-index
\* list where it is found.
C20_ModifiedDownReplacesTheCachedUp ==
    LET m == lastOp.instance
    IN  (LastWas("MODIFIED") /\ filterUp /\ m.status = "DOWN" /\ CachedUp(prev, m)) =>
            /\ ReplacedIn(prev.app[AppKey(m)], ListOf(cache.app, AppKey(m)), m)
            /\ \A t \in Tokens(m) :
                  Matches(ListOf(prev.vip, t), m) # {} =>
                      ReplacedIn(prev.vip[t], ListOf(cache.vip, t), m)


\* C21: a DELETED delta for an instance that matches no cached entry leaves
\* the whole cache as it was, both indices and every list, also when the key
\* of its application or of a vipAddress token is not in the index.
C21_DeleteOfAbsentChangesNothing ==
    (LastWas("DELETED") /\ NoMatchAnywhere(prev, lastOp.instance)) => cache = prev

\* an absent instance was deleted from a cache that holds other instances of
\* its application and vipAddress
C21_AbsentDeletedFromSharedLists ==
    /\ LastWas("DELETED")
    /\ NoMatchAnywhere(prev, lastOp.instance)
    /\ ListOf(prev.app, AppKey(lastOp.instance)) # <<>>
    /\ \E t \in Tokens(lastOp.instance) : ListOf(prev.vip, t) # <<>>
    /\ \E t \in Tokens(lastOp.instance) : ~HasKey(prev.vip, t)


(***************************************************************************)
(* Claims about the resolvers.                                             *)
(***************************************************************************)
\* the step resolved a URL: a new request or the retry of the waiting one
Resolved == req'.n # req.n \/ req'.retryAttempt # req.retryAttempt
ResolveStepRotatesOnlyOnRetry ==
    Resolved =>
        IF req'.retryAttempt = 0
        THEN /\ ring' = ring
             /\ req'.target = Head(ring)
        ELSE /\ req'.target = Head(ring')
             /\ Len(ring) > 1 => ring' = Append(Tail(ring), Head(ring))
             /\ ring = <<UrlA, UrlB>> => req'.target = UrlB
             /\ ring = <<UrlB, UrlA>> => req'.target = UrlA

\* C22: a resolveEurekaUrl call with retryAttempt 0 returns the head of the
\* ring and leaves the ring as it is (the first call on [urlA, urlB] returns
\* urlA); a call with retryAttempt > 0 moves the head to the end first and
\* returns the new head (urlB), and the ring stays rotated for every later
\* call.
C22_OnlyRetriesRotateTheRing == [][ResolveStepRotatesOnlyOnRetry]_vars

\* after a retry of the first request on [urlA, urlB], the second request is
\* sent to urlB with retryAttempt 0
C22_LaterRequestKeepsTheRotation ==
    /\ req.n = 2
    /\ req.retryAttempt = 0
    /\ req.target = UrlB
    /\ ring = <<UrlB, UrlA>>


(***************************************************************************)
(* SpecResolver: a ConfigClusterResolver on its own, from its constructor  *)
(* through a bounded number of resolveEurekaUrl calls.  lastOp holds the   *)
(* configuration and the last call with the URL it returned, nOps counts   *)
(* the calls.                                                              *)
(***************************************************************************)
MaxResolves == 3

UrlC == <<"http://serverC">>

\* zoned serviceUrls: z1 has one or two servers, z2 has one, z3 has none
ZonedConfigOf(prefer, zone, zones, two) ==
    [BaseConfig EXCEPT !.hasServiceUrls = TRUE,
                       !.ec2Region = "r1",
                       !.availabilityZones = [r \in {"r1"} |-> zones],
                       !.serviceUrls = [z \in {"z1", "z2"} |->
                           IF z = "z2" THEN <<UrlB>>
                           ELSE IF two THEN <<UrlA, UrlC>> ELSE <<UrlA>>],
                       !.preferSameZone = prefer,
                       !.instanceZone = zone]

ZoneLists == {<<"z1", "z2">>, <<"z2", "z1">>, <<"z3", "z1", "z2">>}

ZonedConfigs ==
    {ZonedConfigOf(prefer, zone, zones, two) :
        prefer \in BOOLEAN, zone \in {"", "z1", "z2", "z3"},
        zones \in ZoneLists, two \in BOOLEAN}

InitResolver ==
    /\ dns = DnsIdle
    /\ \E cfg \in {BaseConfig, ListConfig} \cup ZonedConfigs :
          lastOp = [op |-> "config", config |-> cfg]
    /\ ring = <<>>
    /\ nOps = 0
    /\ cache = EmptyCache /\ filterUp = TRUE /\ prev = EmptyCache
    /\ maxRetries = 0 /\ middleware = "object" /\ req = ReqIdle
    /\ life = LifeIdle

\* new ConfigClusterResolver(config): this.serviceUrls = this.buildServiceUrls()
Construct ==
    /\ lastOp.op = "config"
    /\ ring' = buildServiceUrls(lastOp.config)
    /\ lastOp' = [op |-> "constructor", config |-> lastOp.config]
    /\ UNCHANGED <<cache, filterUp, prev, nOps, maxRetries, middleware, req, lifeVars, dnsVars>>

\* resolver.resolveEurekaUrl(callback, retryAttempt)
Resolve(retryAttempt) ==
    /\ lastOp.op \in {"constructor", "resolveEurekaUrl"}
    /\ nOps < MaxResolves
    /\ ring' = resolveEurekaUrl(ring, retryAttempt)
    /\ lastOp' = [op |-> "resolveEurekaUrl", config |-> lastOp.config,
                  retryAttempt |-> retryAttempt, url |-> Head(ring')]
    /\ nOps' = nOps + 1
    /\ UNCHANGED <<cache, filterUp, prev, maxRetries, middleware, req, lifeVars, dnsVars>>

NextResolver ==
    \/ Construct
    \/ \E retryAttempt \in 0..1 : Resolve(retryAttempt)

SpecResolver == InitResolver /\ [][NextResolver]_vars

\* the zones of the region that have serviceUrls, in the configured order
ListedZones(cfg) ==
    SelectSeq(IF cfg.ec2Region \in DOMAIN cfg.availabilityZones
              THEN cfg.availabilityZones[cfg.ec2Region] ELSE <<>>,
              LAMBDA z : z \in DOMAIN cfg.serviceUrls)
IsListed(cfg, zone) == \E k \in 1..Len(ListedZones(cfg)) : ListedZones(cfg)[k] = zone
FirstCall == lastOp.op = "resolveEurekaUrl" /\ nOps = 1 /\ lastOp.retryAttempt = 0

\* C23: with zoned serviceUrls the first URL the resolver returns is the
\* first URL of the instance's availability zone when preferSameZone is set
\* and that zone is listed, and the first URL of the first listed zone when
\* preferSameZone is off or the instance's zone is not known.
C23_FirstUrlFollowsZoneAffinity ==
    LET cfg == lastOp.config
    IN  (FirstCall /\ cfg \in ZonedConfigs) =>
            lastOp.url =
                IF cfg.preferSameZone /\ IsListed(cfg, cfg.instanceZone)
                THEN cfg.serviceUrls[cfg.instanceZone][1]
                ELSE cfg.serviceUrls[ListedZones(cfg)[1]][1]

\* the instance's zone is listed second and its first server was returned
C23_OwnZoneListedSecondComesFirst ==
    /\ FirstCall
    /\ lastOp.config \in ZonedConfigs
    /\ lastOp.config.preferSameZone
    /\ lastOp.config.instanceZone = "z1"
    /\ lastOp.config.availabilityZones["r1"] = <<"z2", "z1">>
    /\ lastOp.url = UrlA


(***************************************************************************)
(* DnsClusterResolver: the server list found by DNS TXT lookups.           *)
(* A lookup answer is an error or the TXT records, each record a list of   *)
(* strings.  Zone records and availability zones are strings of characters.*)
(***************************************************************************)
MaxLookups == 2

DnsError == [err |-> TRUE, records |-> <<>>]
DnsTxt(records) == [err |-> FALSE, records |-> records]

\* [].concat(...records)
RECURSIVE concat(_)
concat(records) ==
    IF records = <<>> THEN <<>> ELSE Head(records) \o concat(Tail(records))

\* zone.lastIndexOf(availabilityZone, 0) === 0
startsWith(zone, availabilityZone) ==
    /\ Len(availabilityZone) <= Len(zone)
    /\ SubSeq(zone, 1, Len(availabilityZone)) = availabilityZone

\* resolveZoneHosts: ([].concat(...results)).filter((value) => (!!value))
resolveZoneHosts(answer) ==
    IF answer.err THEN [err |-> TRUE, hosts |-> <<>>]
    ELSE [err |-> FALSE, hosts |-> SelectSeq(concat(answer.records), LAMBDA value : value # "")]

\* lodash shuffle: any order of the same entries
shuffle(list) ==
    {[i \in 1..Len(list) |-> list[f[i]]] :
        f \in {g \in [1..Len(list) -> 1..Len(list)] :
                  \A i, j \in 1..Len(list) : g[i] = g[j] => i = j}}

\* the hosts of the zones of `zones`, zone after zone
RECURSIVE HostsOf(_, _)
HostsOf(results, zones) ==
    IF zones = {} THEN <<>>
    ELSE LET z == CHOOSE x \in zones : TRUE
         IN  results[z] \o HostsOf(results, zones \ {z})

\* combinedHosts shuffling the hosts of all zones together
combinedHostsWithoutAffinity(d, results) ==
    shuffle(HostsOf(results, DOMAIN results))

\* the lists the callback of async.parallel can hand over for `results`:
\* [].concat(shuffle(myZoneHosts), shuffle(hosts))
combinedHosts(d, results) ==
    LET mine == {z \in DOMAIN results :
                    d.preferSameZone /\ d.availabilityZone # <<>> /\ startsWith(z, d.availabilityZone)}
    IN  {m \o o : m \in shuffle(HostsOf(results, mine)),
                  o \in shuffle(HostsOf(results, DOMAIN results \ mine))}

\* lodash xor(this.serverList, hosts): the values in exactly one of the two
\* (an undefined serverList counts for nothing)
xor(d, hosts) ==
    LET old == IF d.listed THEN {d.serverList[i] : i \in 1..Len(d.serverList)} ELSE {}
        new == {hosts[i] : i \in 1..Len(hosts)}
    IN  (old \ new) \cup (new \ old)

\* `${protocol}://${this.serverList[0]}:${port}${servicePath}`
UrlOfHost(serverList) ==
    <<"http", "://", IF serverList = <<>> THEN "undefined" ELSE Head(serverList),
      ":", "9999", "/eureka/v2/apps/">>

\* this.serverList.push(this.serverList.shift())
RotateHosts(serverList) ==
    IF serverList = <<>> THEN <<"undefined">>
    ELSE Append(Tail(serverList), Head(serverList))

\* one resolveClusterHosts call in flight, for the refresh timer or for
\* resolveEurekaUrl
Lookup(caller, retryAttempt) ==
    [caller |-> caller, retryAttempt |-> retryAttempt, stage |-> "region",
     pending |-> {}, results |-> EmptyIndex, failed |-> FALSE, zoneFailed |-> FALSE,
     callbacks |-> 0]

NoDnsStep == [op |-> "none"]

\* new DnsClusterResolver(config): no server list yet; the refresh timer
\* runs (clusterRefreshInterval is 300000 by default)
DnsNew(prefer, availabilityZone) ==
    [useDns |-> TRUE, preferSameZone |-> prefer, availabilityZone |-> availabilityZone,
     listed |-> FALSE, serverList |-> <<>>,
     calls |-> <<>>, last |-> NoDnsStep]

\* the body of resolveEurekaUrl behind getCurrentCluster: rotate on a retry,
\* hand over the URL of the head
resolveEurekaUrlDns(d, retryAttempt, cached) ==
    LET list == IF retryAttempt > 0 THEN RotateHosts(d.serverList) ELSE d.serverList
    IN  [d EXCEPT !.serverList = list,
                  !.last = [op |-> "resolveEurekaUrl", cached |-> cached, err |-> "none",
                            retryAttempt |-> retryAttempt, url |-> UrlOfHost(list),
                            hosts |-> <<>>, results |-> EmptyIndex,
                            before |-> [listed |-> d.listed, serverList |-> d.serverList]]]

\* refreshCurrentCluster taking every resolved list, same hosts or not
refreshCurrentClusterAlwaysReplacing(d, hosts) ==
    [d EXCEPT !.listed = TRUE, !.serverList = hosts]

\* refreshCurrentCluster's callback of resolveClusterHosts: keep the list when
\* the hosts are the same, replace it otherwise
refreshCurrentCluster(d, hosts) ==
    IF xor(d, hosts) # {} THEN [d EXCEPT !.listed = TRUE, !.serverList = hosts] ELSE d

\* Deliver dropping the cached server list when the call failed
DeliverForgettingOnError(d, i, err, hosts, results) ==
    LET c == d.calls[i]
        d0 == [d EXCEPT !.calls[i].callbacks = @ + 1, !.calls[i].failed = (err # "none"),
                        !.calls[i].results = EmptyIndex]
        d1 == IF err # "none" THEN [d0 EXCEPT !.listed = FALSE, !.serverList = <<>>]
              ELSE refreshCurrentCluster(d0, hosts)
        before == [listed |-> d.listed, serverList |-> d.serverList]
    IN  IF c.caller = "refresh"
        THEN [d1 EXCEPT !.last = [op |-> "refreshCurrentCluster", cached |-> FALSE, err |-> err,
                                  retryAttempt |-> 0, url |-> <<>>, hosts |-> hosts,
                                  results |-> results, before |-> before]]
        ELSE IF err # "none"
        THEN [d1 EXCEPT !.last = [op |-> "resolveEurekaUrl", cached |-> FALSE, err |-> err,
                                  retryAttempt |-> c.retryAttempt, url |-> <<>>,
                                  hosts |-> hosts, results |-> results, before |-> before]]
        ELSE [resolveEurekaUrlDns(d1, c.retryAttempt, FALSE) EXCEPT
                  !.last.hosts = hosts, !.last.results = results, !.last.before = before]

\* resolveClusterHosts of call i calls back: with an error ("region", "zone"
\* or "empty") or, err being "none", with hosts found in `results`
Deliver(d, i, err, hosts, results) ==
    LET c == d.calls[i]
        d0 == [d EXCEPT !.calls[i].callbacks = @ + 1, !.calls[i].failed = (err # "none"),
                        !.calls[i].results = EmptyIndex]
        d1 == IF err # "none" THEN d0 ELSE refreshCurrentCluster(d0, hosts)
        before == [listed |-> d.listed, serverList |-> d.serverList]
    IN  IF c.caller = "refresh"
        THEN [d1 EXCEPT !.last = [op |-> "refreshCurrentCluster", cached |-> FALSE, err |-> err,
                                  retryAttempt |-> 0, url |-> <<>>, hosts |-> hosts,
                                  results |-> results, before |-> before]]
        ELSE IF err # "none"
        THEN [d1 EXCEPT !.last = [op |-> "resolveEurekaUrl", cached |-> FALSE, err |-> err,
                                  retryAttempt |-> c.retryAttempt, url |-> <<>>,
                                  hosts |-> hosts, results |-> results, before |-> before]]
        ELSE [resolveEurekaUrlDns(d1, c.retryAttempt, FALSE) EXCEPT
                  !.last.hosts = hosts, !.last.results = results, !.last.before = before]


\* what is kept of the calls that are over
Settled(c) ==
    IF c.callbacks > 0 /\ c.pending = {}
    THEN [caller |-> "none", retryAttempt |-> 0, stage |-> "done", pending |-> {},
          results |-> EmptyIndex, failed |-> FALSE, zoneFailed |-> FALSE,
          callbacks |-> c.callbacks]
    ELSE c
Settle(d) == [d EXCEPT !.calls = [i \in 1..Len(d.calls) |-> Settled(d.calls[i])]]

\* Combine handing over an empty host list as a result
CombineAcceptingEmpty(d, i, results) ==
    {Deliver(d, i, "none", hosts, results) : hosts \in combinedHosts(d, results)}

\* The callback of async.parallel without an error: combine, and report an
\* error when there is no host at all.  The set of resolvers it can leave.
Combine(d, i, results) ==
    {Deliver(d, i, IF Len(hosts) = 0 THEN "empty" ELSE "none",
             IF Len(hosts) = 0 THEN <<>> ELSE hosts, results) :
        hosts \in combinedHosts(d, results)}

(***************************************************************************)
(* SpecDns: a DnsClusterResolver under refresh ticks, resolveEurekaUrl     *)
(* calls and DNS answers in any order.  dns.calls holds the                *)
(* resolveClusterHosts calls made; a call that has called back and has no  *)
(* zone lookup left keeps only its count of callbacks.                     *)
(***************************************************************************)
ZoneA == <<"1", "a", ".", "e">>
ZoneB == <<"1", "b", ".", "e">>
\* no availability zone in the metadata, or zone 1b
AvailabilityZones == {<<>>, <<"1", "b">>}
\* preferSameZone is on with each availability zone and off with one
DnsConfigs ==
    {<<TRUE, az>> : az \in AvailabilityZones} \cup {<<FALSE, <<"1", "b">> >>}

RegionAnswers ==
    {DnsError, DnsTxt(<<>>), DnsTxt(<< <<ZoneA, ZoneB>> >>)}
ZoneAnswers(zone) ==
    {DnsError, DnsTxt(<<>>)} \cup
    (IF zone = ZoneA THEN {DnsTxt(<< <<"a">>, <<"">> >>)}
     ELSE {DnsTxt(<< <<"c">> >>)})

InitDns ==
    /\ \E cfg \in DnsConfigs : dns = DnsNew(cfg[1], cfg[2])
    /\ cache = EmptyCache /\ filterUp = TRUE /\ prev = EmptyCache
    /\ lastOp = NoOp /\ nOps = 0
    /\ ring = <<>> /\ maxRetries = 0 /\ middleware = "object" /\ req = ReqIdle
    /\ life = LifeIdle

\* the interval of startClusterRefresh fires: refreshCurrentCluster
DnsRefreshTick ==
    /\ Len(dns.calls) < MaxLookups
    /\ dns' = [dns EXCEPT !.calls = Append(@, Lookup("refresh", 0))]
    /\ UNCHANGED <<cacheVars, reqVars, lifeVars>>

\* resolveEurekaUrl(callback, retryAttempt): answered at once from the cached
\* list, or after a refresh when there is none
DnsResolveUrl(retryAttempt) ==
    /\ IF dns.listed
       THEN dns' = resolveEurekaUrlDns(dns, retryAttempt, TRUE)
       ELSE /\ Len(dns.calls) < MaxLookups
            /\ dns' = [dns EXCEPT !.calls = Append(@, Lookup("resolve", retryAttempt))]
    /\ UNCHANGED <<cacheVars, reqVars, lifeVars>>

\* the resolvers the answer of the region lookup of call i can leave
RegionAnswered(d, i, answer) ==
    LET zoneRecords == concat(answer.records)
        zones == {zoneRecords[k] : k \in 1..Len(zoneRecords)}
        d1 == [d EXCEPT !.calls[i].stage = "zones", !.calls[i].pending = zones]
    IN  IF answer.err THEN {Settle(Deliver(d, i, "region", <<>>, EmptyIndex))}
        ELSE IF zones = {} THEN {Settle(x) : x \in Combine(d1, i, EmptyIndex)}
        ELSE {d1}

\* the resolvers the answer of one zone lookup of call i can leave
ZoneAnswered(d, i, zone, answer) ==
    LET c == d.calls[i]
        r == resolveZoneHosts(answer)
        results == IF r.err \/ c.callbacks > 0 THEN c.results
                   ELSE Put(c.results, zone, r.hosts)
        d1 == [d EXCEPT !.calls[i].pending = @ \ {zone}, !.calls[i].results = results,
                        !.calls[i].zoneFailed = @ \/ r.err]
    IN  IF c.callbacks > 0 THEN {Settle(d1)}
        ELSE IF r.err THEN {Settle(Deliver(d1, i, "zone", <<>>, results))}
        ELSE IF c.pending = {zone} THEN {Settle(x) : x \in Combine(d1, i, results)}
        ELSE {d1}

\* the TXT lookup of the region of call i is answered: an error ends the
\* call, else one zone lookup per zone record starts (async.parallel over no
\* task at all calls back at once)
DnsRegionDone(i, answer) ==
    /\ dns.calls[i].stage = "region"
    /\ dns' \in RegionAnswered(dns, i, answer)
    /\ UNCHANGED <<cacheVars, reqVars, lifeVars>>

\* DnsZoneDone leaving a failed zone out and combining the other zones
DnsZoneDoneDegrading(i, zone, answer) ==
    /\ dns.calls[i].stage = "zones"
    /\ zone \in dns.calls[i].pending
    /\ LET c == dns.calls[i]
           r == resolveZoneHosts(answer)
           results == IF r.err \/ c.callbacks > 0 THEN c.results
                      ELSE Put(c.results, zone, r.hosts)
           d1 == [dns EXCEPT !.calls[i].pending = @ \ {zone}, !.calls[i].results = results,
                             !.calls[i].zoneFailed = @ \/ r.err]
       IN  IF c.callbacks > 0 THEN dns' = Settle(d1)
           ELSE IF c.pending = {zone} THEN dns' \in {Settle(d) : d \in Combine(d1, i, results)}
           ELSE dns' = d1
    /\ UNCHANGED <<cacheVars, reqVars, lifeVars>>

\* the TXT lookup of one zone of call i is answered.  async.parallel calls
\* back on the first error, or when every task is done, and only once.
DnsZoneDone(i, zone, answer) ==
    /\ dns.calls[i].stage = "zones"
    /\ zone \in dns.calls[i].pending
    /\ dns' \in ZoneAnswered(dns, i, zone, answer)
    /\ UNCHANGED <<cacheVars, reqVars, lifeVars>>

NextDns ==
    \/ DnsRefreshTick
    \/ \E retryAttempt \in 0..1 : DnsResolveUrl(retryAttempt)
    \/ \E i \in 1..Len(dns.calls), answer \in RegionAnswers : DnsRegionDone(i, answer)
    \/ \E i \in 1..Len(dns.calls), zone \in {ZoneA, ZoneB} :
          \E answer \in ZoneAnswers(zone) : DnsZoneDone(i, zone, answer)

SpecDns == InitDns /\ [][NextDns]_vars


(***************************************************************************)
(* Claims about the DNS resolver, stated over dns.last: the last answer    *)
(* given to a caller, with the server list as it was before.               *)
(***************************************************************************)
HostSet(list) == {list[i] : i \in 1..Len(list)}
\* a resolveClusterHosts call has just called back without an error
LookupSucceeded == dns.last.op # "none" /\ ~dns.last.cached /\ dns.last.err = "none"
\* ... or with one
LookupFailed == dns.last.op # "none" /\ ~dns.last.cached /\ dns.last.err # "none"
\* the list after the step, given the list the refresh left: a caller of
\* resolveEurekaUrl with retryAttempt > 0 rotates it once
AfterCaller(list) ==
    IF dns.last.op = "resolveEurekaUrl" /\ dns.last.retryAttempt > 0
    THEN Append(Tail(list), Head(list)) ELSE list

\* C24: when a refresh resolves the hosts of the cached list, in any order,
\* the cached server list keeps its order and rotation position; when the
\* resolved set of hosts differs (or there was no list), the cached list is
\* the newly resolved list.
C24_RefreshKeepsOrderOfSameHosts ==
    LookupSucceeded =>
        /\ dns.listed
        /\ dns.serverList =
              AfterCaller(IF dns.last.before.listed
                             /\ HostSet(dns.last.hosts) = HostSet(dns.last.before.serverList)
                          THEN dns.last.before.serverList
                          ELSE dns.last.hosts)

\* the timer's refresh resolved the same two hosts in the other order and the
\* cached order stayed
C24_SameHostsOtherOrderKept ==
    /\ LookupSucceeded
    /\ dns.last.op = "refreshCurrentCluster"
    /\ dns.last.before.listed
    /\ dns.last.before.serverList = <<"c", "a">>
    /\ dns.last.hosts = <<"a", "c">>
    /\ dns.serverList = <<"c", "a">>


\* resolveEurekaUrl has just answered from the cached list
AnsweredFromCache == dns.last.op = "resolveEurekaUrl" /\ dns.last.cached

\* C25: when a refresh fails (region lookup error, zone lookup error or no
\* host found), the cached server list and its rotation position are as they
\* were, and a resolveEurekaUrl call on a cached list is answered from that
\* list: no error, the URL of its head, after the rotation of a retry.
C25_FailedRefreshKeepsTheList ==
    /\ LookupFailed =>
          /\ dns.listed = dns.last.before.listed
          /\ dns.serverList = dns.last.before.serverList
    /\ AnsweredFromCache =>
          /\ dns.last.err = "none"
          /\ dns.listed /\ dns.last.before.listed
          /\ dns.serverList = AfterCaller(dns.last.before.serverList)
          /\ dns.last.url = UrlOfHost(dns.serverList)

\* the timer's refresh failed on a zone lookup while a rotated list was cached
C25_RefreshFailedOnCachedList ==
    /\ LookupFailed
    /\ dns.last.op = "refreshCurrentCluster"
    /\ dns.last.err = "zone"
    /\ dns.last.before.listed
    /\ dns.serverList = <<"c", "a">>


\* C26: resolveClusterHosts fails as a whole when the TXT lookup of one zone
\* fails: it delivers an error and no host list, whatever the other zones
\* answered or will answer, and the cached list stays as it was.  Its callback
\* is called once: never twice, once by the time every lookup is over, and
\* before the last zone lookup is over only with an error.
C26_OneZoneFailureFailsTheLookup ==
    /\ \A i \in 1..Len(dns.calls) :
          LET c == dns.calls[i]
          IN  /\ c.callbacks <= 1
              /\ c.stage = "done" => c.callbacks = 1
              /\ c.zoneFailed => (c.callbacks = 1 /\ c.failed)
              /\ (c.stage = "zones" /\ c.callbacks > 0) => (c.failed /\ c.pending # {})
              /\ c.stage = "region" => c.callbacks = 0
    /\ (dns.last.op # "none" /\ dns.last.err = "zone") =>
          /\ dns.last.hosts = <<>>
          /\ dns.last.url = <<>>
          /\ dns.listed = dns.last.before.listed
          /\ dns.serverList = dns.last.before.serverList

\* the lookup of one zone failed after the other zone had resolved to a host,
\* and the call is over with one callback
C26_ZoneFailedAfterTheOtherResolved ==
    /\ dns.last.op # "none" /\ dns.last.err = "zone"
    /\ DOMAIN dns.last.results = {ZoneA}
    /\ dns.last.results[ZoneA] = <<"a">>
    /\ \E i \in 1..Len(dns.calls) : dns.calls[i].stage = "done" /\ dns.calls[i].callbacks = 1
    /\ ~dns.listed


\* the zone record begins with the availability zone of the instance
InMyZone(zone) ==
    /\ Len(zone) >= Len(dns.availabilityZone)
    /\ \A k \in 1..Len(dns.availabilityZone) : zone[k] = dns.availabilityZone[k]

\* the number of hosts in the results of the zones of `zones`
RECURSIVE HostCount(_, _)
HostCount(results, zones) ==
    IF zones = {} THEN 0
    ELSE LET z == CHOOSE x \in zones : TRUE
         IN  Len(results[z]) + HostCount(results, zones \ {z})

\* C27: with preferSameZone on and the availability zone of the instance
\* known, the list resolveClusterHosts hands over holds every host of the
\* matching zones before every host of the other zones, and it holds the
\* hosts of all zones and nothing else.
C27_MatchingZoneHostsComeFirst ==
    (LookupSucceeded /\ dns.preferSameZone /\ dns.availabilityZone # <<>>) =>
        LET hosts == dns.last.hosts
            results == dns.last.results
            In(h, z) == h \in HostSet(results[z])
        IN  /\ Len(hosts) = HostCount(results, DOMAIN results)
            /\ HostSet(hosts) = UNION {HostSet(results[z]) : z \in DOMAIN results}
            /\ \A p, q \in 1..Len(hosts) :
                  \A z1, z2 \in DOMAIN results :
                     (InMyZone(z1) /\ ~InMyZone(z2) /\ In(hosts[p], z1) /\ In(hosts[q], z2))
                         => p < q

\* the instance is in zone 1b; zone 1a (asked first) gave host a and zone 1b
\* host c, and c comes first
C27_HostOfZoneBFirst ==
    /\ LookupSucceeded /\ dns.preferSameZone
    /\ dns.availabilityZone = <<"1", "b">>
    /\ DOMAIN dns.last.results = {ZoneA, ZoneB}
    /\ dns.last.hosts = <<"c", "a">>


\* C28: resolveClusterHosts reports an error whenever the hosts of all zones
\* together are none, so a lookup that succeeds hands over at least one host,
\* a cached server list is never empty, and the URL resolveEurekaUrl answers
\* with is that of the head of the list, never that of a missing host.
C28_CachedListIsNeverEmpty ==
    /\ dns.listed =>
          /\ dns.serverList # <<>>
          /\ \A k \in 1..Len(dns.serverList) : dns.serverList[k] \notin {"", "undefined"}
    /\ LookupSucceeded =>
          /\ dns.last.hosts # <<>>
          /\ HostCount(dns.last.results, DOMAIN dns.last.results) > 0
    /\ (dns.last.op # "none" /\ ~dns.last.cached /\ dns.last.err = "empty") =>
          /\ HostCount(dns.last.results, DOMAIN dns.last.results) = 0
          /\ dns.last.hosts = <<>>
          /\ dns.listed = dns.last.before.listed
          /\ dns.serverList = dns.last.before.serverList
    /\ (dns.last.op = "resolveEurekaUrl" /\ dns.last.err = "none") =>
          /\ dns.listed
          /\ dns.last.url = UrlOfHost(dns.serverList)
          /\ dns.last.url # UrlOfHost(<<>>)

\* both zones resolved to no host while a rotated list was cached: the lookup
\* reported an error and the list is still there
C28_BothZonesEmptyIsAnError ==
    /\ dns.last.op # "none" /\ dns.last.err = "empty"
    /\ DOMAIN dns.last.results = {ZoneA, ZoneB}
    /\ dns.listed
    /\ dns.serverList = <<"c", "a">>



(***************************************************************************)
(* The two indexes of the cache against each other.                        *)
(***************************************************************************)
\* every instance the operation carries has the one vipAddress VipA, so that
\* over operations like it each instance keeps its app and its vipAddress
\* (AppOf gives an identity one application)
KeepsVip(instance) == instance.vipAddress = Chars(VipA)
KeptDeltas == {d \in Deltas : KeepsVip(d)}
KeptRegistries ==
    {r \in Registries :
        r.type = "object" => \A i \in InstancesOfRegistry(r) : KeepsVip(i)}

\* the caches one such operation leaves, run on a cache of S
KeptStep(S, filter) ==
    UNION {{handleDelta(c, DeltaWire(d, bare), filter) : d \in KeptDeltas, bare \in BOOLEAN}
           \cup {transformRegistry(c, r, filter).cache : r \in KeptRegistries} : c \in S}
RECURSIVE KeptIter(_, _)
KeptIter(n, filter) ==
    IF n = 0 THEN {EmptyCache} ELSE KeptStep(KeptIter(n - 1, filter), filter)
\* the caches n such operations leave, starting with the empty cache
KeptCaches == [filter \in BOOLEAN |-> [n \in 0..MaxOps |-> KeptIter(n, filter)]]

\* the cache was reached by operations in which instances keep app and vipAddress
KeptSoFar ==
    /\ nOps > 0 => prev \in KeptCaches[filterUp][nOps - 1]
    /\ lastOp.op = "handleDelta" => KeepsVip(lastOp.instance)
    /\ lastOp.op = "transformRegistry" => lastOp.registry \in KeptRegistries

InAppIndex(c, x) == Matches(ListOf(c.app, AppKey(x)), x) # {}
InEveryVipList(c, x) == \A t \in Tokens(x) : Matches(ListOf(c.vip, t), x) # {}

\* C29: after full rebuilds and deltas in which instances keep their app and
\* vipAddress, an instance (by hostName, port) is in the app-index list of its
\* app if and only if it is in every vip-index list named by its vipAddress.
C29_AppIndexAgreesWithVipIndex ==
    KeptSoFar =>
        \A x \in Instances : KeepsVip(x) => (InAppIndex(cache, x) <=> InEveryVipList(cache, x))



\* start() ran its third step once: one registry-fetch timer was created
StartedOnce == life.registryFetch # 0 /\ Cardinality(life.rfTimers) = 1 /\ life.handles <= 2

\* C30: at no time are two registry fetches of the client in flight together,
\* full or delta, whatever the timing of the registry-fetch timer ticks, of
\* start()'s own fetches and of the answers.
C30_OneRegistryFetchAtATime ==
    StartedOnce => FullInFlight(life) + DeltaInFlight(life) <= 1



(***************************************************************************)
(* Claims about failing fetches, filtering and timers.                     *)
(***************************************************************************)
\* the step is the callback of a full-registry request that failed
FullFetchFailed ==
    /\ life'.last.op = "fetchDone" /\ life'.last.failed
    /\ FullInFlight(life') = FullInFlight(life) - 1
FailedFullFetchStepKeepsTheCache ==
    FullFetchFailed =>
        /\ cache' = cache
        /\ life'.hasFullRegistry = life.hasFullRegistry
        /\ "registryUpdated" \notin life'.last.emitted
        /\ (life'.inflight.fetchStart < life.inflight.fetchStart /\ ~life.waitForRegistry)
              => life'.last.callback = "error"

\* C31: when a full registry fetch fails (transport error, a status other
\* than 200, a body JSON.parse rejects, or an exception while the snapshot is
\* transformed), both indices of the cache and hasFullRegistry are as they
\* were, nothing of the snapshot is in the cache, and the error reaches the
\* callback of the fetch (start()'s callback for start()'s own fetch).
C31_FailedFullFetchChangesNothing == [][FailedFullFetchStepKeepsTheCache]_vars

\* a full fetch answered 200 failed on a client that holds a cached registry
C31_FailedOn200WithCachedRegistry ==
    /\ life.last.op = "fetchDone" /\ life.last.failed /\ life.last.status = 200
    /\ life.hasFullRegistry
    /\ cache # EmptyCache
    /\ Len(ListOf(cache.app, "SVC")) = 1 /\ cache.app["SVC"][1].hostName = "h1"


\* the URLs of the zones of `zones`, zone after zone
RECURSIVE UrlsOfZones(_, _)
UrlsOfZones(cfg, zones) ==
    IF zones = <<>> THEN <<>>
    ELSE cfg.serviceUrls[Head(zones)] \o UrlsOfZones(cfg, Tail(zones))
\* affinity applies: preferSameZone is set and the instance's zone is listed
HasOwnZone(cfg) == cfg.preferSameZone /\ IsListed(cfg, cfg.instanceZone)
\* every URL of every listed zone once: those of the instance's zone at the
\* front when affinity applies, those of the other zones after, in zone order
RingOfEveryUrlOnce(cfg) ==
    IF HasOwnZone(cfg)
    THEN cfg.serviceUrls[cfg.instanceZone]
         \o UrlsOfZones(cfg, SelectSeq(ListedZones(cfg), LAMBDA z : z # cfg.instanceZone))
    ELSE UrlsOfZones(cfg, ListedZones(cfg))

\* C32: the ring the constructor builds from zoned serviceUrls holds every URL
\* of every listed zone exactly once: the URLs of the instance's zone at the
\* front when affinity applies, the URLs of the other zones after them in zone
\* order.
C32_RingHoldsEveryUrlOnce ==
    (lastOp.op = "constructor" /\ lastOp.config \in ZonedConfigs) =>
        ring = RingOfEveryUrlOnce(lastOp.config)



(***************************************************************************)
(* SpecReqDns: eurekaRequest on a client whose clusterResolver is a        *)
(* DnsClusterResolver (useDns), one request at a time.  The refresh        *)
(* interval does not elapse; the server list is looked up by the first     *)
(* resolveEurekaUrl that finds none.                                       *)
(***************************************************************************)
\* the stages after a resolved URL: the middleware, then the HTTP call
AfterResolve(r) ==
    IF ~TypeofIsObject(middleware) THEN FinalHandler(r, "middleware", TransportError, FALSE)
    ELSE IF middleware = "null" THEN [r EXCEPT !.pc = "threw"]
    ELSE [r EXCEPT !.pc = "inflight"]

\* the first stage of one attempt: clusterResolver.resolveEurekaUrl(cb, retryAttempt),
\* answered at once from the cached list or after the lookups
AttemptDns(r, retryAttempt) ==
    LET r1 == [r EXCEPT !.retryAttempt = retryAttempt, !.target = <<>>]
    IN  IF dns.listed
        THEN /\ dns' = resolveEurekaUrlDns(dns, retryAttempt, TRUE)
             /\ req' = AfterResolve([r1 EXCEPT !.target = dns'.last.url])
        ELSE /\ Len(dns.calls) < MaxLookups
             /\ dns' = [dns EXCEPT !.calls = Append(@, Lookup("resolve", retryAttempt))]
             /\ req' = [r1 EXCEPT !.pc = "resolving"]

\* the request after a DNS answer took the resolver from d to e: when the
\* answer made call i of resolveEurekaUrl call back, done(err) ends in the
\* final handler and done(null, requestOpts) goes on to the middleware
AfterLookup(d, e, i) ==
    IF d.calls[i].caller = "resolve" /\ d.calls[i].callbacks = 0 /\ e.calls[i].callbacks = 1
    THEN IF e.last.err # "none"
         THEN FinalHandler(req, "resolve", TransportError, FALSE)
         ELSE AfterResolve([req EXCEPT !.target = e.last.url])
    ELSE req

InitReqDns ==
    /\ dns = DnsNew(TRUE, <<"1", "b">>)
    /\ ring = <<>>
    /\ maxRetries \in 0..MaxRetriesBound
    /\ middleware = "object"
    /\ req = ReqIdle
    /\ cache = EmptyCache /\ filterUp = TRUE /\ prev = EmptyCache
    /\ lastOp = NoOp /\ nOps = 0
    /\ life = LifeIdle

\* eurekaRequest(uri, opts, callback): a new request, retryAttempt 0
EurekaRequestDns ==
    /\ req.pc \in {"idle", "done", "threw"}
    /\ req.n < MaxRequests
    /\ AttemptDns([ReqIdle EXCEPT !.n = req.n + 1], 0)
    /\ UNCHANGED <<ring, maxRetries, middleware, cacheVars, lifeVars>>

\* the region lookup of call i is answered
ReqRegionDone(i, answer) ==
    /\ dns.calls[i].stage = "region"
    /\ dns' \in RegionAnswered(dns, i, answer)
    /\ req' = AfterLookup(dns, dns', i)
    /\ UNCHANGED <<ring, maxRetries, middleware, cacheVars, lifeVars>>

\* a zone lookup of call i is answered
ReqZoneDone(i, zone, answer) ==
    /\ dns.calls[i].stage = "zones"
    /\ zone \in dns.calls[i].pending
    /\ dns' \in ZoneAnswered(dns, i, zone, answer)
    /\ req' = AfterLookup(dns, dns', i)
    /\ UNCHANGED <<ring, maxRetries, middleware, cacheVars, lifeVars>>

\* the retry timer fires: eurekaRequest(uri, opts, callback, retryAttempt + 1)
RetryTimerDns ==
    /\ req.pc = "waiting"
    /\ AttemptDns(req, req.retryAttempt + 1)
    /\ UNCHANGED <<ring, maxRetries, middleware, cacheVars, lifeVars>>

NextReqDns ==
    \/ EurekaRequestDns
    \/ \E i \in 1..Len(dns.calls), answer \in RegionAnswers : ReqRegionDone(i, answer)
    \/ \E i \in 1..Len(dns.calls), zone \in {ZoneA, ZoneB} :
          \E answer \in ZoneAnswers(zone) : ReqZoneDone(i, zone, answer)
    \/ \E outcome \in Outcomes : HttpDone(outcome)
    \/ RetryTimerDns

SpecReqDns == InitReqDns /\ [][NextReqDns]_vars

\* the step is the callback of a resolveEurekaUrl that failed
ResolutionFailed ==
    /\ req.pc = "resolving" /\ req'.pc # "resolving"
    /\ dns'.last.op = "resolveEurekaUrl" /\ dns'.last.err # "none"
ResolutionFailedStepRetriesOrCallsBack ==
    ResolutionFailed =>
        IF req.retryAttempt < maxRetries
        THEN /\ req'.pc = "waiting"
             /\ req'.scheduled = req.scheduled + 1
             /\ req'.delay = RequestRetryDelay * (req.retryAttempt + 1)
             /\ req'.callbacks = 0
        ELSE /\ req'.pc = "done"
             /\ req'.callbacks = 1
             /\ req'.cbError = "resolve"

\* C33: when the URL resolution of an attempt of eurekaRequest fails and retry
\* attempts remain, the request is scheduled again after the backoff (and the
\* retry resolves again); when none remain the resolution error is passed to
\* the callback, which is called once.
C33_FailedResolutionRetriesOrCallsBack == [][ResolutionFailedStepRetriesOrCallsBack]_vars



\* the entries of a list whose status is not UP
NotUp(list) == {x \in Elements(list) : x.status # "UP"}
\* a non-UP entry is in the list `after` and was not in `before`: the last
\* operation was a MODIFIED delta for it that matched an entry of `before`
OnlyModifiedInserts(before, after) ==
    \A x \in NotUp(after) \ NotUp(before) :
        /\ LastWas("MODIFIED")
        /\ Untagged(x) = Untagged(lastOp.instance)
        /\ Matches(before, lastOp.instance) # {}

\* C34: with UP filtering, an instance whose status is not UP comes into a
\* list of the cache only by a MODIFIED delta that matched an entry already
\* cached in that list; full rebuilds, ADDED deltas and MODIFIED deltas
\* without a match insert no instance that is not UP.
C34_OnlyMatchedModifyInsertsNonUp ==
    filterUp =>
        /\ \A k \in DOMAIN cache.app : OnlyModifiedInserts(ListOf(prev.app, k), cache.app[k])
        /\ \A k \in DOMAIN cache.vip : OnlyModifiedInserts(ListOf(prev.vip, k), cache.vip[k])

\* a MODIFIED delta with status DOWN for an instance cached under token a
\* only: the DOWN instance is in the lists where it matched, and it was not
\* added to the list of token b
C34_DownReplacedWhereMatchedOnly ==
    /\ filterUp /\ LastWas("MODIFIED")
    /\ lastOp.instance.status = "DOWN"
    /\ lastOp.instance.vipAddress = Chars(VipAB)
    /\ NotUp(ListOf(cache.vip, <<"a">>)) # {}
    /\ NotUp(ListOf(cache.app, "SVC")) # {}
    /\ ListOf(cache.vip, <<"b">>) = <<>>



\* list `a` is list `b` begun at its entry number k + 1
RotatedBy(a, b, k) ==
    /\ Len(a) = Len(b)
    /\ \A j \in 1..Len(a) : a[j] = b[((j - 1 + k) % Len(b)) + 1]
IsRotation(a, b) == \E k \in 0..Len(b) : RotatedBy(a, b, k)
\* the resolver exists
Constructed == lastOp.op \in {"constructor", "resolveEurekaUrl"}
RingIsRotationOfTheBuilt ==
    Constructed => IsRotation(ring, buildServiceUrls(lastOp.config))
\* a resolveEurekaUrl call: a retry on a ring of more than one entry moves
\* the head on by one, any other call leaves the ring, and the head is the answer
ResolveStepAdvancesByOne ==
    (Constructed /\ nOps' = nOps + 1) =>
        /\ IF lastOp'.retryAttempt > 0 /\ Len(ring) > 1
           THEN RotatedBy(ring', ring, 1)
           ELSE ring' = ring
        /\ lastOp'.url = ring'[1]

\* C35: after any resolveEurekaUrl calls with any retryAttempt values the ring
\* of the ConfigClusterResolver is a cyclic rotation of the ring built at
\* construction (the same URLs, as many times, in the same cyclic order), and
\* each retry call on a ring of more than one entry moves the head on by
\* exactly one position.
C35_RingIsOnlyRotated == [](RingIsRotationOfTheBuilt) /\ [][ResolveStepAdvancesByOne]_vars

\* two retries on a ring of three servers: the third is the head
C35_TwoRetriesOnThreeServers ==
    /\ lastOp.op = "resolveEurekaUrl" /\ lastOp.retryAttempt > 0
    /\ buildServiceUrls(lastOp.config) = <<UrlA, UrlC, UrlB>>
    /\ ring = <<UrlB, UrlA, UrlC>>



\* C36: a MODIFIED delta leaves every vip-index list its vipAddress does not
\* name as it was, so an instance whose vipAddress changed stays in the list
\* of its old vipAddress: a vip-index key can hold an instance whose current
\* vipAddress no longer names that key.
C36_ModifyLeavesOtherVipLists ==
    LastWas("MODIFIED") =>
        \A t \in DOMAIN prev.vip :
            t \notin Tokens(lastOp.instance) =>
                /\ HasKey(cache.vip, t)
                /\ cache.vip[t] = prev.vip[t]

\* h1:80 was cached under "a,b" and modified to vipAddress "a": the app list
\* and the list of a hold the modified instance, the list of b still holds
\* the old one
C36_StaleEntryUnderOldVip ==
    /\ LastWas("MODIFIED")
    /\ lastOp.instance.vipAddress = Chars(VipA)
    /\ \E x \in Elements(ListOf(cache.vip, <<"b">>)) :
          /\ findInstance(lastOp.instance, x)
          /\ x.vipAddress = Chars(VipAB)
    /\ \A x \in Elements(ListOf(cache.app, "SVC")) :
          findInstance(lastOp.instance, x) => x.vipAddress = Chars(VipA)
    /\ \E x \in Elements(ListOf(cache.vip, <<"a">>)) :
          findInstance(lastOp.instance, x) /\ x.vipAddress = Chars(VipA)
    /\ Matches(ListOf(cache.app, "SVC"), lastOp.instance) # {}



\* a step of a stopped client that no start() call made
StoppedClientStep == life.stopped /\ life'.stopped
StoppedClientStepSendsNoRegistration ==
    StoppedClientStep => (NotSent("regStart") /\ NotSent("regRenew"))

\* C37: once stop() has been called the client sends no registration (POST)
\* request, whatever the order of stop() and of the answer to a heartbeat
\* renewal that was in flight, a 404 answered after the deregistration
\* included.
C37_NoRegistrationAfterStop == [][StoppedClientStepSendsNoRegistration]_vars



(***************************************************************************)
(* SpecShared: two callers of eurekaRequest (the heartbeat's renew and the *)
(* registry fetch) with requests in flight together on one                 *)
(* ConfigClusterResolver.  req holds one request record per caller.        *)
(***************************************************************************)
Callers == {"renew", "fetchRegistry"}
\* eureka.serviceUrls = {default: [A, C, B]}
ThreeListConfig ==
    [BaseConfig EXCEPT !.hasServiceUrls = TRUE,
                       !.serviceUrls = [z \in {"default"} |-> <<UrlA, UrlC, UrlB>>]]
SharedOutcomes == {TransportError, Response(200)}

\* the resolve and middleware stages of one attempt of caller k's request
AttemptOf(k, r, retryAttempt) ==
    /\ ring' = resolveEurekaUrl(ring, retryAttempt)
    /\ req' = [req EXCEPT ![k] =
                  AfterResolve([r EXCEPT !.retryAttempt = retryAttempt, !.target = Head(ring')])]

InitShared ==
    /\ dns = DnsIdle
    /\ \E cfg \in {ListConfig, ThreeListConfig} : ring = buildServiceUrls(cfg)
    /\ maxRetries \in 1..MaxRetriesBound
    /\ middleware = "object"
    /\ req = [k \in Callers |-> ReqIdle]
    /\ cache = EmptyCache /\ filterUp = TRUE /\ prev = EmptyCache
    /\ lastOp = NoOp /\ nOps = 0
    /\ life = LifeIdle

\* caller k calls eurekaRequest(uri, opts, callback)
SharedRequest(k) ==
    /\ req[k].pc \in {"idle", "done"}
    /\ req[k].n < MaxRequests
    /\ AttemptOf(k, [ReqIdle EXCEPT !.n = req[k].n + 1], 0)
    /\ UNCHANGED <<maxRetries, middleware, cacheVars, lifeVars, dnsVars>>

\* the HTTP call of caller k's attempt ends: the final handler runs
SharedHttpDone(k, outcome) ==
    /\ req[k].pc = "inflight"
    /\ req' = [req EXCEPT ![k] =
                  FinalHandler(req[k], IF outcome.error THEN "transport" ELSE "none",
                               outcome, TRUE)]
    /\ UNCHANGED <<ring, maxRetries, middleware, cacheVars, lifeVars, dnsVars>>

\* the retry timer of caller k's request fires
SharedRetryTimer(k) ==
    /\ req[k].pc = "waiting"
    /\ AttemptOf(k, req[k], req[k].retryAttempt + 1)
    /\ UNCHANGED <<maxRetries, middleware, cacheVars, lifeVars, dnsVars>>

NextShared ==
    \E k \in Callers :
        \/ SharedRequest(k)
        \/ \E outcome \in SharedOutcomes : SharedHttpDone(k, outcome)
        \/ SharedRetryTimer(k)

SpecShared == InitShared /\ [][NextShared]_vars

\* the ring holds two or more URLs, each once
DistinctRing ==
    /\ Len(ring) >= 2
    /\ \A i, j \in 1..Len(ring) : ring[i] = ring[j] => i = j
\* caller k's request is in a retry attempt that was just sent
RetrySent(k) ==
    req[k].pc = "inflight" /\ req[k].retryAttempt > 0 /\ Len(req[k].log) > 0

\* C38: on a ring of two or more distinct URLs, whatever the interleaving of
\* the requests in flight on the shared resolver, a retry attempt of a
\* request targets a base URL other than the one its preceding attempt
\* failed on.
C38_RetryTargetsAnotherUrl ==
    \A k \in Callers :
        (DistinctRing /\ RetrySent(k)) =>
            req[k].target # req[k].log[Len(req[k].log)].target



\* no two entries of the list have the same (hostName, port)
NoTwoAlike(list) ==
    \A i, j \in 1..Len(list) : findInstance(list[i], list[j]) => i = j
NoTwoAlikeIn(index) == \A key \in DOMAIN index : NoTwoAlike(index[key])

\* C39: after any sequence of full rebuilds and delta batches (ADDED,
\* MODIFIED, DELETED), no list of the app index and no list of the vip index
\* holds two entries with the same (hostName, port).
C39_NoListHoldsAnIdentityTwice ==
    NoTwoAlikeIn(cache.app) /\ NoTwoAlikeIn(cache.vip)



\* every running timer of the set is the one whose handle the client holds
HeldByTheClient(timers, handle) == timers \subseteq {handle}

\* C40: for any sequence of start() and stop() calls on one client, at most
\* one heartbeat timer and at most one registry-fetch timer is active at any
\* time, and no timer is running that stop() cannot cancel because a
\* repeated start() dropped its handle.
C40_AtMostOneTimerOfEachKind ==
    /\ Cardinality(life.hbTimers) <= 1
    /\ Cardinality(life.rfTimers) <= 1
    /\ HeldByTheClient(life.hbTimers, life.heartbeat)
    /\ HeldByTheClient(life.rfTimers, life.registryFetch)

=============================================================================
